---- MODULE Spec2Model ----
(***************************************************************************)
(* Model of the VRG serial driver (src/src/model/vrg_driver.py) shared by  *)
(* the GUI thread and the polling worker thread, and of the application    *)
(* that uses it (src/src/controller, src/src/view).                        *)
(*                                                                         *)
(* Text is modelled as sequences of one-character strings, so formatting   *)
(* (f'{v:04d}'), str.replace, str.strip, the "target" substring test and   *)
(* float() are computed, not assumed.                                      *)
(*                                                                         *)
(* A Python float holding a frequency in MHz is modelled as a record       *)
(* [u, e]: the binary64 number nearest to the decimal u/10000 MHz (u in    *)
(* units of 100 Hz), plus e units in the last place.  The two IEEE-754     *)
(* effects the driver is exposed to are computed exactly for frequencies   *)
(* in [16, 64) MHz: the product value*1000 falling just below a whole      *)
(* number of kHz (Shortfall) and k*1e-3 landing one ulp above the literal  *)
(* k/1000 (UlpAbove).                                                      *)
(*                                                                         *)
(* The specifications of the driver share its actions.  Spec has the two   *)
(* threads: the GUI thread makes the setter calls, the reads of the window *)
(* and the flush, the worker polls the frequency.  SpecSingle has one      *)
(* caller that uses the whole driver, the power and status reads included, *)
(* and may close the port between two calls.  SpecClose has the worker     *)
(* inside a query while the GUI thread closes the port.  SpecLive is Spec  *)
(* with a generator that answers every query with a clean line, a          *)
(* transport that does not fail and both threads scheduled fairly.         *)
(* SpecStatus has one caller reading the status flags of a device whose    *)
(* status number is any of 0..15.                                          *)
(*                                                                         *)
(* SpecGui is the application: the window's widgets, the worker's timer    *)
(* and thread, the queued signals and the controller's handlers.  There a  *)
(* driver call is modelled by how it ends.  SpecStop is the polling, the   *)
(* Connect action and the stopping of the worker, with the queued signals  *)
(* delivered fairly.                                                       *)
(***************************************************************************)
EXTENDS Integers, Sequences, FiniteSets, TLC

\* ------------------------------------------------------------------ bounds
\* Total number of public driver calls started in one behaviour.
MaxOps == 2
\* Total number of unsolicited "target" lines the device emits.
MaxGarbage == 1
\* Total number of timer ticks and user actions in one run of the application.
MaxEvents == 2

\* ------------------------------------------------------------- characters
CR == "\r"
DigitChars == <<"0", "1", "2", "3", "4", "5", "6", "7", "8", "9">>
Whitespace == {" ", "\r", "\n", "\t"}

\* The two callers that share one driver: the GUI thread and the worker.
Threads == {"ui", "poll"}
NoThread == "free"

\* ------------------------------------------------------------ text helpers
RECURSIVE Digits(_)
\* Decimal digits of a natural number, most significant first.
Digits(n) ==
    IF n < 10 THEN <<DigitChars[n + 1]>>
    ELSE Digits(n \div 10) \o <<DigitChars[(n % 10) + 1]>>

RECURSIVE ZeroPad(_, _)
\* format(n, '0{w}d') for n >= 0: at least w digits, padded with zeros.
ZeroPad(s, w) == IF Len(s) >= w THEN s ELSE ZeroPad(<<"0">> \o s, w)

\* (a narrower field: f'{value:03d}')
Format03d(n) == ZeroPad(Digits(n), 3)

\* f'{value:04d}'
Format04d(n) == ZeroPad(Digits(n), 4)

\* f'{freq_kHz:05d}'
Format05d(n) == ZeroPad(Digits(n), 5)

\* s.endswith(c) for a one-character c
EndsWith(s, c) == Len(s) > 0 /\ s[Len(s)] = c

\* s.startswith(p)
StartsWith(s, p) == Len(s) >= Len(p) /\ SubSeq(s, 1, Len(p)) = p

\* p in s   (substring test)
Contains(s, p) ==
    \E i \in 1..(Len(s) - Len(p) + 1) : SubSeq(s, i, i + Len(p) - 1) = p

RECURSIVE Replace(_, _)
\* s.replace(p, ''): every non-overlapping occurrence of p removed.
Replace(s, p) ==
    IF Len(s) < Len(p) \/ Len(p) = 0 THEN s
    ELSE IF StartsWith(s, p) THEN Replace(SubSeq(s, Len(p) + 1, Len(s)), p)
    ELSE <<s[1]>> \o Replace(SubSeq(s, 2, Len(s)), p)

RECURSIVE LStrip(_)
LStrip(s) ==
    IF Len(s) > 0 /\ s[1] \in Whitespace THEN LStrip(SubSeq(s, 2, Len(s)))
    ELSE s

RECURSIVE RStrip(_)
RStrip(s) ==
    IF Len(s) > 0 /\ s[Len(s)] \in Whitespace
    THEN RStrip(SubSeq(s, 1, Len(s) - 1))
    ELSE s

\* s.strip()
Strip(s) == LStrip(RStrip(s))

DigitValue(c) == CHOOSE d \in 0..9 : DigitChars[d + 1] = c

IsDigit(c) == \E d \in 0..9 : DigitChars[d + 1] = c

RECURSIVE DigitsValue(_)
DigitsValue(s) ==
    IF Len(s) = 0 THEN 0
    ELSE DigitsValue(SubSeq(s, 1, Len(s) - 1)) * 10 + DigitValue(s[Len(s)])

\* float(text) succeeds.  The lines the modelled device sends are either
\* unsigned digit strings or not numbers at all.
IsNumeric(s) == Len(s) > 0 /\ \A i \in 1..Len(s) : IsDigit(s[i])

\* The index of the first whitespace character of s, or Len(s) + 1.
FirstSpace(s) ==
    CHOOSE k \in 1..(Len(s) + 1) :
        /\ k = Len(s) + 1 \/ s[k] \in Whitespace
        /\ \A j \in 1..(k - 1) : s[j] \notin Whitespace

RECURSIVE Split(_)
\* s.split(): the words of s that whitespace separates
Split(s) ==
    LET rest == LStrip(s) IN
    IF Len(rest) = 0 THEN <<>>
    ELSE <<SubSeq(rest, 1, FirstSpace(rest) - 1)>>
         \o Split(SubSeq(rest, FirstSpace(rest), Len(rest)))

RECURSIVE Join(_)
\* ' '.join(words)
Join(words) ==
    IF Len(words) = 0 THEN <<>>
    ELSE IF Len(words) = 1 THEN words[1]
    ELSE words[1] \o <<" ">> \o Join(Tail(words))

RECURSIVE BinDigits(_)
BinDigits(n) ==
    IF n < 2 THEN <<DigitChars[n + 1]>>
    ELSE BinDigits(n \div 2) \o <<DigitChars[(n % 2) + 1]>>

\* bin(n) for n >= 0: '0b' and the binary digits
Bin(n) == <<"0", "b">> \o BinDigits(n)

\* s[-k] is defined (no IndexError)
HasFromEnd(s, k) == k <= Len(s)

\* s[-k]
FromEnd(s, k) == s[Len(s) - k + 1]

\* 'target'
GarbageMarker == <<"t", "a", "r", "g", "e", "t">>

\* ------------------------------------------------ binary64 frequency model
\* A float is [u |-> units of 100 Hz, e |-> ulps above the nearest double].
Flt(u) == [u |-> u, e |-> 0]

\* a < b, a <= b on modelled floats (distinct u are far more than an ulp apart)
FltLess(a, b) == a.u < b.u \/ (a.u = b.u /\ a.e < b.e)
FltLeq(a, b) == ~FltLess(b, a)

\* For the double v nearest to k/1000 (k a whole number of kHz), v*1000
\* rounds to the double just below k exactly when the rounding error of v
\* exceeds half an ulp of k.  With v in [32,64) and k < 2^15 the error is
\* -((k*2^44) mod 125)/125 ulps of v, i.e. more than half an ulp of k when
\* the residue is in 33..62; 2^44 mod 125 = 41.  Likewise for v in [16,32)
\* and k < 2^14 with 2^45 mod 125 = 82.  Elsewhere in [16,64) the product
\* is exactly k.
Shortfall(k) ==
    \/ /\ 32000 <= k /\ k < 32768
       /\ (k * 41) % 125 >= 33 /\ (k * 41) % 125 <= 62
    \/ /\ 16000 <= k /\ k < 16384
       /\ (k * 82) % 125 >= 33 /\ (k * 82) % 125 <= 62

\* float(str(k)) * 1e-3 is one ulp above the double nearest to k/1000:
\* 1e-3 is stored as (2^62 + 96)/(1000 * 2^62), so the exact product lies
\* 3k/(125 * 2^13) ulps (v in [32,64)) or 3k/(125 * 2^12) ulps (v in [16,32))
\* above k/1000; ties go to the even significand.
UlpAbove(k) ==
    LET hi == k >= 32000
        c == IF hi THEN 41 ELSE 82
        c250 == IF hi THEN 166 ELSE 82
        sh == IF hi THEN 8192 ELSE 4096
        s == (k * c) % 125
        t == s * sh + 3 * k
        half == 125 * (sh \div 2)
    IN  /\ s <= 62
        /\ \/ t > half
           \/ t = half /\ (((k % 250) * c250 - s) % 250 = 125)

\* int(value * 1000) for a float value in MHz: truncation of the binary64
\* product.
IntOfTimes1000(value) ==
    IF value.u % 10 # 0 THEN value.u \div 10
    ELSE IF value.e = 0 /\ Shortfall(value.u \div 10)
         THEN value.u \div 10 - 1
         ELSE value.u \div 10

\* float(response) * 1e-3 for a response holding the whole number k
TimesMilli(k) == [u |-> k * 10, e |-> IF UlpAbove(k) THEN 1 ELSE 0]

\* ------------------------------------------------------------------ values
\* A Python argument value: its type and its payload.  For "float" the
\* payload is in units of 100 Hz (a frequency in MHz times 10000), for "int"
\* and "bool" it is the integer itself, for "str" it is unused.
IntArg(v) == [kind |-> "int", v |-> v]
FloatArg(u) == [kind |-> "float", v |-> u]
BoolArg(b) == [kind |-> "bool", v |-> IF b THEN 1 ELSE 0]
StrArg == [kind |-> "str", v |-> 0]
NoArg == [kind |-> "none", v |-> 0]

\* isinstance(value, int): bool is a subclass of int
IsInstanceInt(value) == value.kind \in {"int", "bool"}

\* isinstance(value, int | float)
IsInstanceIntOrFloat(value) == value.kind \in {"int", "bool", "float"}

\* isinstance(enable, bool)
IsInstanceBool(value) == value.kind = "bool"

\* The number an int/bool/float argument denotes, as a modelled float (MHz).
AsFlt(value) == IF value.kind = "float" THEN Flt(value.v) ELSE Flt(value.v * 10000)

NoVal == [u |-> -1, e |-> 0]

\* A Python int or bool handed back by a getter.
IntVal(k) == [u |-> k, e |-> 0]
BoolVal(b) == [u |-> IF b THEN 1 ELSE 0, e |-> 0]

\* Values handed to the power setter.
PowerArgs == {IntArg(-1), IntArg(0), IntArg(37), IntArg(1000), IntArg(1200),
              FloatArg(5000000), StrArg}

\* Values handed to the frequency setters: 24.0, 28.0007 and 32.3 MHz as
\* floats, 43 MHz as an int, and a string.
FreqArgs == {FloatArg(240000), FloatArg(280007), FloatArg(323000),
             IntArg(43), StrArg}

\* Values handed to the output_enabled setter.
EnableArgs == {BoolArg(TRUE), BoolArg(FALSE), IntArg(1)}

\* ------------------------------------------------------------------- state
VARIABLES
    com_port,               \* self._com_port: "None" or the port's name
    opens,                  \* the attempts made to open the port (the
                            \* serial.Serial(...) calls), TRUE for a success
    serial_port,            \* self.serial_port: "None", or the port object
                            \* with is_open true ("open") or false ("closed")
    lock,                   \* self._lock: the holding thread, or NoThread
    min_freq_hard_limit,    \* self._min_freq_hard_limit
    max_freq_hard_limit,    \* self._max_freq_hard_limit
    max_power,              \* self._max_power
    min_freq,               \* self._min_freq  (cached allowed minimum)
    max_freq,               \* self._max_freq  (cached allowed maximum)
    calls,                  \* the calls made on the serial.Serial object by
                            \* the driver calls in progress and by those
                            \* that finished since a call was last started
    dev,                    \* the generator's settings, in kHz
    th,                     \* per thread: position and locals of its call
    last,                   \* per thread: how its call ended, if it
                            \* finished since a call was last started
    ops_left,               \* calls that may still be started
    garbage_left,           \* unsolicited lines the device may still emit
    view,                   \* the MainWindow's widgets (enabled, checked,
                            \* focus, text), once the application runs
    worker,                 \* the Worker, its QTimer and its QThread
    signals,                \* Qt signals emitted and not yet delivered,
                            \* per receiving thread
    controller              \* the RFController: the driver instance it
                            \* holds, the driver calls it has made

vars == <<com_port, opens, serial_port, lock, min_freq_hard_limit, max_freq_hard_limit,
          max_power, min_freq, max_freq, calls, dev, th, last, ops_left,
          garbage_left, view, worker, signals, controller>>

\* The application around the driver.
app == <<view, worker, signals, controller>>

config == <<com_port, opens, min_freq_hard_limit, max_freq_hard_limit,
           max_power>>

Idle == [pc |-> "idle", op |-> "none", arg |-> NoArg, n |-> 0,
         cmd |-> <<>>, resp |-> <<>>, exc |-> "none", ret |-> "none",
         val |-> NoVal, lst |-> <<>>, stored |-> FALSE]

NoResult == [op |-> "none", arg |-> NoArg, n |-> 0, exc |-> "none",
             val |-> NoVal, lst |-> <<>>, stored |-> FALSE]

\* (an open_connection that hands back the port object although opening it
\* failed)
open_connection_unchecked(opened) == IF opened THEN "open" ELSE "closed"

\* VRG.open_connection: the serial.Serial object, or None when creating it
\* raised
open_connection(opened) == IF opened THEN "open" ELSE "None"

\* The driver used on its own: there is no window, worker or controller.
NoApp == <<>>

\* VRG.__init__ with freq_range=(25, 42), for a generator whose settings are
\* d: without a port name no connection is tried; with one, open_connection
\* is called once and its result kept.
InitDriver(d) ==
    /\ com_port \in {"None", "COM3"}
    /\ \E opened \in BOOLEAN :
         /\ opens = IF com_port = "None" THEN <<>> ELSE <<opened>>
         /\ serial_port =
              IF com_port = "None" THEN "None" ELSE open_connection(opened)
    /\ lock = NoThread
    /\ min_freq_hard_limit = Flt(250000)
    /\ max_freq_hard_limit = Flt(420000)
    /\ max_power = 1000
    /\ min_freq = min_freq_hard_limit
    /\ max_freq = max_freq_hard_limit
    /\ calls = <<>>
    /\ dev = d
    /\ th = [t \in Threads |-> Idle]
    /\ last = [t \in Threads |-> NoResult]
    /\ garbage_left = MaxGarbage

\* The driver on its own, with MaxOps calls to come.
InitWith(d) ==
    /\ InitDriver(d)
    /\ ops_left = MaxOps
    /\ view = NoApp
    /\ worker = NoApp
    /\ signals = NoApp
    /\ controller = NoApp

\* The driver constructed for a generator set to 29 MHz.
Init == InitWith([freq |-> 29000, min |-> 25000, max |-> 42000,
                   status |-> 5])

\* ------------------------------------------------------- call bookkeeping
\* The locals of a call that thread t starts now.
Rec(opname, value) ==
    [Idle EXCEPT !.op = opname, !.arg = value, !.n = MaxOps - ops_left + 1]

Result(r, e, v) ==
    [op |-> r.op, arg |-> r.arg, n |-> r.n, exc |-> e, val |-> v,
     lst |-> r.lst, stored |-> r.stored]

\* The outcomes still remembered after a step of thread t: a thread that
\* starts a call wipes the outcomes of the calls that have finished.
Kept(t) == IF th[t].pc = "idle" THEN [u \in Threads |-> NoResult] ELSE last

\* The call of thread t, with locals r, raises e to its caller.
Raise(t, r, e) ==
    /\ th' = [th EXCEPT ![t] = Idle]
    /\ last' = [Kept(t) EXCEPT ![t] = Result(r, e, NoVal)]

\* The call of thread t, with locals r, returns v to its caller.
Return(t, r, v) ==
    /\ th' = [th EXCEPT ![t] = Idle]
    /\ last' = [Kept(t) EXCEPT ![t] = Result(r, "none", v)]

\* The call of thread t goes on with locals r; while a call is in progress
\* the thread has no latest outcome.
Goto(t, r) ==
    /\ th' = [th EXCEPT ![t] = r]
    /\ last' = [Kept(t) EXCEPT ![t] = NoResult]

\* self._send_command(command), continuing at ret when it returns
SendCommand(r, command, ret) ==
    [r EXCEPT !.pc = "cmd_check", !.cmd = command, !.ret = ret]

\* self._send_query(query), continuing at ret when it returns
SendQuery(r, query, ret) ==
    [r EXCEPT !.pc = "q_check", !.cmd = query, !.ret = ret]

\* An entry on the record of calls made on the serial port object.
Call(t, name, data, ok) ==
    [by |-> t, n |-> th[t].n, call |-> name, data |-> data, ok |-> ok]

\* The frames that reached the device, in order.
Wire == SelectSeq(calls, LAMBDA c : c.call = "write" /\ c.ok)

\* The frames a given call (thread t, call number n) put on the wire.
FramesOf(t, n) ==
    SelectSeq(calls, LAMBDA c : c.call = "write" /\ c.ok /\ c.by = t /\ c.n = n)

\* The serial port calls a given call attempted.
CallsOf(t, n) == SelectSeq(calls, LAMBDA c : c.by = t /\ c.n = n)

\* (the test of self.serial_port alone, without is_open)
PortObjectHeld == serial_port # "None"

\* self.serial_port and self.serial_port.is_open
Connected == serial_port = "open"

\* serial.Serial.is_open: reset_input_buffer, write and read_until of a
\* port that is not open raise PortNotOpenError, a SerialException
is_open == serial_port = "open"

\* ------------------------------------------------------------ the device
SF == <<"S", "F">>
S1 == <<"S", "1">>
S2 == <<"S", "2">>
SP == <<"S", "P">>
RQ == <<"R", "Q">>
R1 == <<"R", "1">>
R2 == <<"R", "2">>
ER == <<"E", "R">>
DR == <<"D", "R">>
RO == <<"R", "O">>
RF == <<"R", "F">>
RR == <<"R", "R">>
RB == <<"R", "B">>
GS == <<"G", "S">>
RT == <<"R", "T">>

\* The generator stores the argument of SF, S1 and S2 frames.
DeviceAfter(d, frame) ==
    LET body == Strip(frame)
        rest == SubSeq(body, 3, Len(body))
    IN  IF ~IsNumeric(rest) THEN d
        ELSE IF StartsWith(body, SF) THEN [d EXCEPT !.freq = DigitsValue(rest)]
        ELSE IF StartsWith(body, S1) THEN [d EXCEPT !.min = DigitsValue(rest)]
        ELSE IF StartsWith(body, S2) THEN [d EXCEPT !.max = DigitsValue(rest)]
        ELSE d

\* The setting a query mnemonic asks for.
DeviceValue(q) ==
    IF q = RQ THEN dev.freq ELSE IF q = R1 THEN dev.min ELSE dev.max

\* The numbers the generator may answer a query with: a frequency setting
\* as stored, a status byte (three flags), a power in watts.
DeviceValues(q) ==
    IF q \in {RQ, R1, R2} THEN {DeviceValue(q)}
    ELSE IF q = GS THEN 0..7
    ELSE {0, 37}

\* The fields of an RT answer: version, status byte, three voltages, a
\* current and two temperatures.
StatusFields == <<Digits(1), Digits(dev.status), Digits(5), Digits(12),
                  Digits(48), Digits(2), Digits(30), Digits(31)>>

\* The texts the generator may answer a query with: one number, or for RT
\* the fields, all of them or only the first ones when the line is cut short.
DeviceTexts(q) ==
    IF q = RT THEN {Join(StatusFields), Join(SubSeq(StatusFields, 1, 2)),
                    Join(SubSeq(StatusFields, 1, 1))}
    ELSE {Digits(v) : v \in DeviceValues(q)}

\* A line that is no number: the generator's answer to what it cannot parse.
MalformedLine == <<"?", CR>>

\* The unsolicited line of the firmware defect.
GarbageLine == <<"t", "a", "r", "g", "e", "t", " ", "0", CR>>

\* What read_until may deliver after the query q was written: the answer
\* with or without the echoed mnemonic, a line that is no number, nothing at
\* all (timeout), or, while the device still spams, an unsolicited line.
DeviceLines(q) ==
    {text \o <<CR>> : text \in DeviceTexts(q)}
    \cup {q \o text \o <<CR>> : text \in DeviceTexts(q)}
    \cup {MalformedLine, <<>>}
    \cup (IF garbage_left > 0 THEN {GarbageLine} ELSE {})

\* ---------------------------------------------------------------- the lock
\* (taking the lock without waiting for it)
LockAcquireNoWait(t) == lock' = t

\* with self._lock:  entering blocks until the lock is free
LockAcquire(t) == lock = NoThread /\ lock' = t

\* (leaving the with block without giving the lock back)
LockKept(t) == lock' = lock

\* leaving the with block, normally or by an exception
LockRelease(t) == lock' = NoThread

\* ------------------------------------------------------------ _send_command
\* (a command sent as given, without the termination character)
send_command_check_noterm(t) ==
    /\ th[t].pc = "cmd_check"
    /\ IF ~Connected
       THEN Raise(t, th[t], "RuntimeError")
       ELSE Goto(t, [th[t] EXCEPT !.pc = "cmd_acquire"])
    /\ UNCHANGED <<serial_port, lock, config, app, min_freq, max_freq, calls,
                   dev, ops_left, garbage_left>>

\* _send_command: the connection test, then the termination character is
\* appended unless the command ends with it
send_command_check(t) ==
    /\ th[t].pc = "cmd_check"
    /\ IF ~Connected
       THEN Raise(t, th[t], "RuntimeError")
       ELSE Goto(t, [th[t] EXCEPT
                !.pc = "cmd_acquire",
                !.cmd = IF EndsWith(@, CR) THEN @ ELSE @ \o <<CR>>])
    /\ UNCHANGED <<serial_port, lock, config, app, min_freq, max_freq, calls, dev,
                   ops_left, garbage_left>>

send_command_acquire(t) ==
    /\ th[t].pc = "cmd_acquire"
    /\ LockAcquire(t)
    /\ Goto(t, [th[t] EXCEPT !.pc = "cmd_write"])
    /\ UNCHANGED <<serial_port, config, app, min_freq, max_freq, calls, dev,
                   ops_left, garbage_left>>

\* (a command that discards the pending input before it writes)
send_command_write_resetting(t) ==
    /\ th[t].pc = "cmd_write"
    /\ \/ /\ is_open
          /\ calls' = Append(Append(calls, Call(t, "reset", <<>>, TRUE)),
                             Call(t, "write", th[t].cmd, TRUE))
          /\ dev' = DeviceAfter(dev, th[t].cmd)
          /\ Goto(t, [th[t] EXCEPT !.pc = "cmd_release"])
       \/ /\ calls' = Append(calls, Call(t, "write", th[t].cmd, FALSE))
          /\ dev' = dev
          /\ Goto(t, [th[t] EXCEPT !.pc = "cmd_release",
                                   !.exc = "ConnectionError"])
    /\ UNCHANGED <<serial_port, lock, config, app, min_freq, max_freq, ops_left,
                   garbage_left>>

\* self.serial_port.write(...) either writes the frame or raises, and the
\* exception is re-raised as ConnectionError.
send_command_write(t) ==
    /\ th[t].pc = "cmd_write"
    /\ \/ /\ is_open
          /\ calls' = Append(calls, Call(t, "write", th[t].cmd, TRUE))
          /\ dev' = DeviceAfter(dev, th[t].cmd)
          /\ Goto(t, [th[t] EXCEPT !.pc = "cmd_release"])
       \/ /\ calls' = Append(calls, Call(t, "write", th[t].cmd, FALSE))
          /\ dev' = dev
          /\ Goto(t, [th[t] EXCEPT !.pc = "cmd_release",
                                   !.exc = "ConnectionError"])
    /\ UNCHANGED <<serial_port, lock, config, app, min_freq, max_freq, ops_left,
                   garbage_left>>

\* (a compound operation that keeps the lock for its next exchange)
send_command_release_held(t) ==
    /\ th[t].pc = "cmd_release"
    /\ IF th[t].exc = "none" /\ th[t].ret # "return"
       THEN LockKept(t) ELSE LockRelease(t)
    /\ IF th[t].exc # "none" THEN Raise(t, th[t], th[t].exc)
       ELSE IF th[t].ret = "return" THEN Return(t, th[t], NoVal)
       ELSE Goto(t, [th[t] EXCEPT !.pc = th[t].ret])
    /\ UNCHANGED <<serial_port, config, app, min_freq, max_freq, calls, dev,
                   ops_left, garbage_left>>

\* leaving the with block of _send_command: the ConnectionError is raised,
\* otherwise the caller goes on
send_command_release(t) ==
    /\ th[t].pc = "cmd_release"
    /\ LockRelease(t)
    /\ IF th[t].exc # "none" THEN Raise(t, th[t], th[t].exc)
       ELSE IF th[t].ret = "return" THEN Return(t, th[t], NoVal)
       ELSE Goto(t, [th[t] EXCEPT !.pc = th[t].ret])
    /\ UNCHANGED <<serial_port, config, app, min_freq, max_freq, calls, dev,
                   ops_left, garbage_left>>

\* -------------------------------------------------------------- _send_query
send_query_check(t) ==
    /\ th[t].pc = "q_check"
    /\ IF ~Connected
       THEN Raise(t, th[t], "RuntimeError")
       ELSE Goto(t, [th[t] EXCEPT
                !.pc = "q_acquire",
                !.cmd = IF EndsWith(@, CR) THEN @ ELSE @ \o <<CR>>])
    /\ UNCHANGED <<serial_port, lock, config, app, min_freq, max_freq, calls, dev,
                   ops_left, garbage_left>>

send_query_acquire(t) ==
    /\ th[t].pc = "q_acquire"
    /\ LockAcquire(t)
    /\ Goto(t, [th[t] EXCEPT !.pc = "q_reset"])
    /\ UNCHANGED <<serial_port, config, app, min_freq, max_freq, calls, dev,
                   ops_left, garbage_left>>

\* self.serial_port.reset_input_buffer(), first time and in the loop
send_query_reset(t) ==
    /\ th[t].pc = "q_reset"
    /\ \/ /\ is_open
          /\ calls' = Append(calls, Call(t, "reset", <<>>, TRUE))
          /\ Goto(t, [th[t] EXCEPT !.pc = "q_write"])
       \/ /\ calls' = Append(calls, Call(t, "reset", <<>>, FALSE))
          /\ Goto(t, [th[t] EXCEPT !.pc = "q_release",
                                   !.exc = "SerialException"])
    /\ UNCHANGED <<serial_port, lock, config, app, min_freq, max_freq, dev,
                   ops_left, garbage_left>>

\* self.serial_port.write(query.encode('utf-8')), first time and in the loop
send_query_write(t) ==
    /\ th[t].pc = "q_write"
    /\ \/ /\ is_open
          /\ calls' = Append(calls, Call(t, "write", th[t].cmd, TRUE))
          /\ Goto(t, [th[t] EXCEPT !.pc = "q_read"])
       \/ /\ calls' = Append(calls, Call(t, "write", th[t].cmd, FALSE))
          /\ Goto(t, [th[t] EXCEPT !.pc = "q_release",
                                   !.exc = "SerialException"])
    /\ UNCHANGED <<serial_port, lock, config, app, min_freq, max_freq, dev,
                   ops_left, garbage_left>>

\* (a loop that is never entered)
WhileTargetNever(response) == FALSE

\* (a loop with a cap: it gives up at the last unsolicited line the bound
\* lets the device send)
WhileTargetCapped(response) ==
    Contains(response, GarbageMarker) /\ garbage_left > 1

\* (a loop that also goes round for an empty line)
WhileTargetOrEmpty(response) ==
    Contains(response, GarbageMarker) \/ response = <<>>

\* while 'target' in response:
WhileTarget(response) == Contains(response, GarbageMarker)

\* _readline: read_until(term).decode().strip()
Readline(raw) == Strip(raw)

\* Bytes read that decode('utf-8') refuses.
NotText == <<"\\xff">>

\* (a loop that writes the query again without resetting the input buffer)
send_query_read_noreset(t) ==
    /\ th[t].pc = "q_read"
    /\ \/ \E raw \in DeviceLines(Strip(th[t].cmd)) :
            /\ is_open
            /\ calls' = Append(calls, Call(t, "read", Readline(raw), TRUE))
            /\ garbage_left' =
                 IF raw = GarbageLine THEN garbage_left - 1 ELSE garbage_left
            /\ Goto(t, [th[t] EXCEPT
                     !.resp = Readline(raw),
                     !.pc = IF WhileTarget(Readline(raw))
                            THEN "q_write" ELSE "q_release"])
       \/ /\ calls' = Append(calls, Call(t, "read", <<>>, FALSE))
          /\ garbage_left' = garbage_left
          /\ Goto(t, [th[t] EXCEPT !.pc = "q_release",
                                   !.exc = "SerialException"])
       \/ /\ is_open
          /\ calls' = Append(calls, Call(t, "read", NotText, TRUE))
          /\ garbage_left' = garbage_left
          /\ Goto(t, [th[t] EXCEPT !.pc = "q_release",
                                   !.exc = "UnicodeDecodeError"])
    /\ UNCHANGED <<serial_port, lock, config, app, min_freq, max_freq, dev,
                   ops_left>>

\* response = self._readline(), then the test of the while loop: a line
\* with the marker sends the thread round the loop, any other line ends it.
\* read_until may raise, and so may decode for bytes that are no text.
send_query_read(t) ==
    /\ th[t].pc = "q_read"
    /\ \/ \E raw \in DeviceLines(Strip(th[t].cmd)) :
            /\ is_open
            /\ calls' = Append(calls, Call(t, "read", Readline(raw), TRUE))
            /\ garbage_left' =
                 IF raw = GarbageLine THEN garbage_left - 1 ELSE garbage_left
            /\ Goto(t, [th[t] EXCEPT
                     !.resp = Readline(raw),
                     !.pc = IF WhileTarget(Readline(raw))
                            THEN "q_reset" ELSE "q_release"])
       \/ /\ calls' = Append(calls, Call(t, "read", <<>>, FALSE))
          /\ garbage_left' = garbage_left
          /\ Goto(t, [th[t] EXCEPT !.pc = "q_release",
                                   !.exc = "SerialException"])
       \/ /\ is_open
          /\ calls' = Append(calls, Call(t, "read", NotText, TRUE))
          /\ garbage_left' = garbage_left
          /\ Goto(t, [th[t] EXCEPT !.pc = "q_release",
                                   !.exc = "UnicodeDecodeError"])
    /\ UNCHANGED <<serial_port, lock, config, app, min_freq, max_freq, dev,
                   ops_left>>

\* (an except clause that prints the exception without raising it again)
send_query_release_swallowing(t) ==
    /\ th[t].pc = "q_release"
    /\ LockRelease(t)
    /\ Goto(t, [th[t] EXCEPT !.pc = th[t].ret, !.exc = "none"])
    /\ UNCHANGED <<serial_port, config, app, min_freq, max_freq, calls, dev,
                   ops_left, garbage_left>>

\* leaving the with block: the exception of the try block is raised again,
\* otherwise _send_query returns the response
send_query_release(t) ==
    /\ th[t].pc = "q_release"
    /\ LockRelease(t)
    /\ IF th[t].exc # "none" THEN Raise(t, th[t], th[t].exc)
       ELSE Goto(t, [th[t] EXCEPT !.pc = th[t].ret])
    /\ UNCHANGED <<serial_port, config, app, min_freq, max_freq, calls, dev,
                   ops_left, garbage_left>>

\* --------------------------------------------------------- public operations
\* Thread t, not inside a driver call, starts one; the record of serial
\* port calls is cleared of the calls that have finished.
Start(t) ==
    /\ th[t].pc = "idle"
    /\ ops_left > 0
    /\ ops_left' = ops_left - 1
    /\ calls' = SelectSeq(calls, LAMBDA c : th[c.by].pc # "idle")

\* (the response stripped of whitespace only)
CleanedOfWhitespace(response, command) == Strip(response)

\* The cleaned response of a getter: _send_query(c).replace(c, '').strip()
Cleaned(response, command) == Strip(Replace(response, command))

\* (a range check that forgets the upper limit)
PowerAtLeastZero(value) == 0 <= value.v

\* 0 <= value <= self._max_power
PowerInRange(value) == 0 <= value.v /\ value.v <= max_power

\* VRG.power (setter)
power_setter(t) ==
    /\ Start(t)
    /\ \E value \in PowerArgs :
         LET r == Rec("power.setter", value) IN
         IF ~IsInstanceInt(value) THEN Raise(t, r, "TypeError")
         ELSE IF ~PowerInRange(value) THEN Raise(t, r, "ValueError")
         ELSE Goto(t, SendCommand(r, SP \o Format04d(value.v), "return"))
    /\ UNCHANGED <<serial_port, lock, config, app, min_freq, max_freq, dev,
                   garbage_left>>

\* VRG.output_enabled (setter)
output_enabled_setter(t) ==
    /\ Start(t)
    /\ \E enable \in EnableArgs :
         LET r == Rec("output_enabled.setter", enable) IN
         IF ~IsInstanceBool(enable) THEN Raise(t, r, "TypeError")
         ELSE Goto(t, SendCommand(r, IF enable.v = 1 THEN ER ELSE DR,
                                  "return"))
    /\ UNCHANGED <<serial_port, lock, config, app, min_freq, max_freq, dev,
                   garbage_left>>

\* (a check of the lower hard limit only)
AboveHardMinimum(value) == FltLeq(min_freq_hard_limit, value)

\* self._min_freq_hard_limit <= value <= self._max_freq_hard_limit
WithinHardLimits(value) ==
    FltLeq(min_freq_hard_limit, value) /\ FltLeq(value, max_freq_hard_limit)

\* (the check made against the hard limits instead of the allowed window)
WithinWindowOfHardLimits(value) == WithinHardLimits(value)

\* self._min_freq <= value <= self._max_freq
WithinWindow(value) == FltLeq(min_freq, value) /\ FltLeq(value, max_freq)

\* The body of VRG.freq (setter), run for the call with locals r: isnumber
\* is isinstance(value, int | float) and value the number given.
FreqSetterBody(t, r, isnumber, value) ==
    IF ~isnumber THEN Raise(t, r, "TypeError")
    ELSE IF ~WithinWindow(value) THEN Raise(t, r, "ValueError")
    ELSE Goto(t, SendCommand(r, SF \o Format05d(IntOfTimes1000(value)),
                             "return"))

\* VRG.freq (setter)
freq_setter(t) ==
    /\ Start(t)
    /\ \E value \in FreqArgs :
         FreqSetterBody(t, Rec("freq.setter", value),
                        IsInstanceIntOrFloat(value), AsFlt(value))
    /\ UNCHANGED <<serial_port, lock, config, app, min_freq, max_freq, dev,
                   garbage_left>>

\* VRG.freq (getter): the query
freq_getter(t) ==
    /\ Start(t)
    /\ Goto(t, SendQuery(Rec("freq.getter", NoArg), RQ, "freq_get_return"))
    /\ UNCHANGED <<serial_port, lock, config, app, min_freq, max_freq, dev,
                   garbage_left>>

\* (a frequency read that also stores its value as the cached minimum)
freq_getter_return_cached(t) ==
    /\ th[t].pc = "freq_get_return"
    /\ \E response \in {Cleaned(th[t].resp, RQ)} :
         IF ~IsNumeric(response)
         THEN /\ Raise(t, th[t], "ParseError")
              /\ min_freq' = min_freq
         ELSE /\ min_freq' = TimesMilli(DigitsValue(response))
              /\ Return(t, th[t], TimesMilli(DigitsValue(response)))
    /\ UNCHANGED <<serial_port, lock, config, app, max_freq, calls, dev,
                   ops_left, garbage_left>>

\* VRG.freq (getter): return float(response) * 1e-3
freq_getter_return(t) ==
    /\ th[t].pc = "freq_get_return"
    /\ \E response \in {Cleaned(th[t].resp, RQ)} :
         IF ~IsNumeric(response) THEN Raise(t, th[t], "ParseError")
         ELSE Return(t, th[t], TimesMilli(DigitsValue(response)))
    /\ UNCHANGED <<serial_port, lock, config, app, min_freq, max_freq, calls, dev,
                   ops_left, garbage_left>>

\* VRG.min_freq (getter): the query
min_freq_getter(t) ==
    /\ Start(t)
    /\ Goto(t, SendQuery(Rec("min_freq.getter", NoArg), R1, "min_get_store"))
    /\ UNCHANGED <<serial_port, lock, config, app, min_freq, max_freq, dev,
                   garbage_left>>

\* (a read of the minimum that returns the value without keeping it)
min_freq_getter_nostore(t) ==
    /\ th[t].pc = "min_get_store"
    /\ \E response \in {Cleaned(th[t].resp, R1)} :
         IF ~IsNumeric(response) THEN Raise(t, th[t], "ParseError")
         ELSE Return(t, th[t], TimesMilli(DigitsValue(response)))
    /\ UNCHANGED <<serial_port, lock, config, app, min_freq, max_freq, calls,
                   dev, ops_left, garbage_left>>

\* VRG.min_freq (getter): self._min_freq = float(response) * 1e-3; return it
min_freq_getter_store(t) ==
    /\ th[t].pc = "min_get_store"
    /\ \E response \in {Cleaned(th[t].resp, R1)} :
         IF ~IsNumeric(response)
         THEN /\ Raise(t, th[t], "ParseError")
              /\ min_freq' = min_freq
         ELSE /\ min_freq' = TimesMilli(DigitsValue(response))
              /\ Return(t, [th[t] EXCEPT !.stored = TRUE],
                        TimesMilli(DigitsValue(response)))
    /\ UNCHANGED <<serial_port, lock, config, app, max_freq, calls, dev,
                   ops_left, garbage_left>>

\* VRG.max_freq (getter): the query
max_freq_getter(t) ==
    /\ Start(t)
    /\ Goto(t, SendQuery(Rec("max_freq.getter", NoArg), R2, "max_get_store"))
    /\ UNCHANGED <<serial_port, lock, config, app, min_freq, max_freq, dev,
                   garbage_left>>

\* VRG.max_freq (getter): self._max_freq = float(response) * 1e-3; return it
max_freq_getter_store(t) ==
    /\ th[t].pc = "max_get_store"
    /\ \E response \in {Cleaned(th[t].resp, R2)} :
         IF ~IsNumeric(response)
         THEN /\ Raise(t, th[t], "ParseError")
              /\ max_freq' = max_freq
         ELSE /\ max_freq' = TimesMilli(DigitsValue(response))
              /\ Return(t, [th[t] EXCEPT !.stored = TRUE],
                        TimesMilli(DigitsValue(response)))
    /\ UNCHANGED <<serial_port, lock, config, app, min_freq, calls, dev,
                   ops_left, garbage_left>>

\* (a setter that puts the new bound in the cache before the S1 frame is
\* written)
min_freq_setter_store_first(t) ==
    /\ Start(t)
    /\ \E value \in FreqArgs :
         LET r == Rec("min_freq.setter", value) IN
         IF ~IsInstanceIntOrFloat(value)
         THEN Raise(t, r, "TypeError") /\ min_freq' = min_freq
         ELSE IF ~WithinHardLimits(AsFlt(value))
         THEN Raise(t, r, "ValueError") /\ min_freq' = min_freq
         ELSE /\ min_freq' = AsFlt(value)
              /\ Goto(t, SendCommand([r EXCEPT !.val = AsFlt(value)],
                        S1 \o Format05d(IntOfTimes1000(AsFlt(value))),
                        "min_set_store"))
    /\ UNCHANGED <<serial_port, lock, config, app, max_freq, dev,
                   garbage_left>>

\* VRG.min_freq (setter): validation and the S1 command
min_freq_setter(t) ==
    /\ Start(t)
    /\ \E value \in FreqArgs :
         LET r == Rec("min_freq.setter", value) IN
         IF ~IsInstanceIntOrFloat(value) THEN Raise(t, r, "TypeError")
         ELSE IF ~WithinHardLimits(AsFlt(value))
         THEN Raise(t, r, "ValueError")
         ELSE Goto(t, SendCommand([r EXCEPT !.val = AsFlt(value)],
                    S1 \o Format05d(IntOfTimes1000(AsFlt(value))),
                    "min_set_store"))
    /\ UNCHANGED <<serial_port, lock, config, app, min_freq, max_freq, dev,
                   garbage_left>>

\* (the new bound assigned to the hard limit instead of the cached bound)
min_freq_setter_store_hard(t) ==
    /\ th[t].pc = "min_set_store"
    /\ min_freq_hard_limit' = th[t].val
    /\ Goto(t, SendQuery([th[t] EXCEPT !.stored = TRUE], RQ, "min_set_clamp"))
    /\ UNCHANGED <<serial_port, lock, com_port, opens, max_freq_hard_limit,
                   max_power, app, min_freq, max_freq, calls, dev, ops_left,
                   garbage_left>>

\* VRG.min_freq (setter): self._min_freq = value, then the self.freq query
min_freq_setter_store(t) ==
    /\ th[t].pc = "min_set_store"
    /\ min_freq' = th[t].val
    /\ Goto(t, SendQuery([th[t] EXCEPT !.stored = TRUE], RQ, "min_set_clamp"))
    /\ UNCHANGED <<serial_port, lock, config, app, max_freq, calls, dev,
                   ops_left, garbage_left>>

\* VRG.min_freq (setter): if self.freq < self._min_freq:
\*                            self.freq = self._min_freq
min_freq_setter_clamp(t) ==
    /\ th[t].pc = "min_set_clamp"
    /\ \E response \in {Cleaned(th[t].resp, RQ)} :
         IF ~IsNumeric(response) THEN Raise(t, th[t], "ParseError")
         ELSE IF FltLess(TimesMilli(DigitsValue(response)), min_freq)
         THEN FreqSetterBody(t, th[t], TRUE, min_freq)
         ELSE Return(t, th[t], NoVal)
    /\ UNCHANGED <<serial_port, lock, config, app, min_freq, max_freq, calls, dev,
                   ops_left, garbage_left>>

\* VRG.max_freq (setter): validation and the S2 command
max_freq_setter(t) ==
    /\ Start(t)
    /\ \E value \in FreqArgs :
         LET r == Rec("max_freq.setter", value) IN
         IF ~IsInstanceIntOrFloat(value) THEN Raise(t, r, "TypeError")
         ELSE IF ~WithinHardLimits(AsFlt(value))
         THEN Raise(t, r, "ValueError")
         ELSE Goto(t, SendCommand([r EXCEPT !.val = AsFlt(value)],
                    S2 \o Format05d(IntOfTimes1000(AsFlt(value))),
                    "max_set_store"))
    /\ UNCHANGED <<serial_port, lock, config, app, min_freq, max_freq, dev,
                   garbage_left>>

\* VRG.max_freq (setter): self._max_freq = value, then the self.freq query
max_freq_setter_store(t) ==
    /\ th[t].pc = "max_set_store"
    /\ max_freq' = th[t].val
    /\ Goto(t, SendQuery([th[t] EXCEPT !.stored = TRUE], RQ, "max_set_clamp"))
    /\ UNCHANGED <<serial_port, lock, config, app, min_freq, calls, dev,
                   ops_left, garbage_left>>

\* VRG.max_freq (setter): if self.freq > self._max_freq:
\*                            self.freq = self._max_freq
max_freq_setter_clamp(t) ==
    /\ th[t].pc = "max_set_clamp"
    /\ \E response \in {Cleaned(th[t].resp, RQ)} :
         IF ~IsNumeric(response) THEN Raise(t, th[t], "ParseError")
         ELSE IF FltLess(max_freq, TimesMilli(DigitsValue(response)))
         THEN FreqSetterBody(t, th[t], TRUE, max_freq)
         ELSE Return(t, th[t], NoVal)
    /\ UNCHANGED <<serial_port, lock, config, app, min_freq, max_freq, calls, dev,
                   ops_left, garbage_left>>

\* ------------------------------------------------------ flush_input_buffer
\* (a flush that resets the input buffer without taking the lock)
flush_input_buffer_unlocked(t) ==
    /\ Start(t)
    /\ LET r == Rec("flush_input_buffer", NoArg) IN
         IF ~Connected THEN Return(t, r, NoVal)
         ELSE Goto(t, [r EXCEPT !.pc = "flush_reset"])
    /\ UNCHANGED <<serial_port, lock, config, app, min_freq, max_freq, dev,
                   garbage_left>>

\* VRG.flush_input_buffer: nothing to do without an open port
flush_input_buffer(t) ==
    /\ Start(t)
    /\ LET r == Rec("flush_input_buffer", NoArg) IN
         IF ~Connected THEN Return(t, r, NoVal)
         ELSE Goto(t, [r EXCEPT !.pc = "flush_acquire"])
    /\ UNCHANGED <<serial_port, lock, config, app, min_freq, max_freq, dev,
                   garbage_left>>

flush_input_buffer_acquire(t) ==
    /\ th[t].pc = "flush_acquire"
    /\ LockAcquire(t)
    /\ Goto(t, [th[t] EXCEPT !.pc = "flush_reset"])
    /\ UNCHANGED <<serial_port, config, app, min_freq, max_freq, calls, dev,
                   ops_left, garbage_left>>

\* self.serial_port.reset_input_buffer(), which may raise
flush_input_buffer_reset(t) ==
    /\ th[t].pc = "flush_reset"
    /\ \/ /\ is_open
          /\ calls' = Append(calls, Call(t, "reset", <<>>, TRUE))
          /\ Goto(t, [th[t] EXCEPT !.pc = "flush_release"])
       \/ /\ calls' = Append(calls, Call(t, "reset", <<>>, FALSE))
          /\ Goto(t, [th[t] EXCEPT !.pc = "flush_release",
                                   !.exc = "SerialException"])
    /\ UNCHANGED <<serial_port, lock, config, app, min_freq, max_freq, dev,
                   ops_left, garbage_left>>

flush_input_buffer_release(t) ==
    /\ th[t].pc = "flush_release"
    /\ LockRelease(t)
    /\ IF th[t].exc # "none" THEN Raise(t, th[t], th[t].exc)
       ELSE Return(t, th[t], NoVal)
    /\ UNCHANGED <<serial_port, config, app, min_freq, max_freq, calls, dev,
                   ops_left, garbage_left>>

\* ------------------------------------------------------ readings and status
\* return int(float(response)) for the cleaned answer to command
IntReturn(t, command) ==
    LET response == Cleaned(th[t].resp, command) IN
    IF ~IsNumeric(response) THEN Raise(t, th[t], "ParseError")
    ELSE Return(t, th[t], IntVal(DigitsValue(response)))

\* VRG.power (getter): the query
power_getter(t) ==
    /\ Start(t)
    /\ Goto(t, SendQuery(Rec("power.getter", NoArg), RO, "power_getter_return"))
    /\ UNCHANGED <<serial_port, lock, config, app, min_freq, max_freq, dev,
                   garbage_left>>

\* VRG.power (getter): return int(float(response))
power_getter_return(t) ==
    /\ th[t].pc = "power_getter_return"
    /\ IntReturn(t, RO)
    /\ UNCHANGED <<serial_port, lock, config, app, min_freq, max_freq, calls, dev,
                   ops_left, garbage_left>>

\* VRG.fwd_power: the query
fwd_power(t) ==
    /\ Start(t)
    /\ Goto(t, SendQuery(Rec("fwd_power", NoArg), RF, "fwd_power_return"))
    /\ UNCHANGED <<serial_port, lock, config, app, min_freq, max_freq, dev,
                   garbage_left>>

\* VRG.fwd_power: return int(float(response))
fwd_power_return(t) ==
    /\ th[t].pc = "fwd_power_return"
    /\ IntReturn(t, RF)
    /\ UNCHANGED <<serial_port, lock, config, app, min_freq, max_freq, calls, dev,
                   ops_left, garbage_left>>

\* VRG.rfl_power: the query
rfl_power(t) ==
    /\ Start(t)
    /\ Goto(t, SendQuery(Rec("rfl_power", NoArg), RR, "rfl_power_return"))
    /\ UNCHANGED <<serial_port, lock, config, app, min_freq, max_freq, dev,
                   garbage_left>>

\* VRG.rfl_power: return int(float(response))
rfl_power_return(t) ==
    /\ th[t].pc = "rfl_power_return"
    /\ IntReturn(t, RR)
    /\ UNCHANGED <<serial_port, lock, config, app, min_freq, max_freq, calls, dev,
                   ops_left, garbage_left>>

\* VRG.abs_power: the query
abs_power(t) ==
    /\ Start(t)
    /\ Goto(t, SendQuery(Rec("abs_power", NoArg), RB, "abs_power_return"))
    /\ UNCHANGED <<serial_port, lock, config, app, min_freq, max_freq, dev,
                   garbage_left>>

\* VRG.abs_power: return int(float(response))
abs_power_return(t) ==
    /\ th[t].pc = "abs_power_return"
    /\ IntReturn(t, RB)
    /\ UNCHANGED <<serial_port, lock, config, app, min_freq, max_freq, calls, dev,
                   ops_left, garbage_left>>

\* VRG.status_byte: the query
status_byte(t) ==
    /\ Start(t)
    /\ Goto(t, SendQuery(Rec("status_byte", NoArg), GS, "status_byte_return"))
    /\ UNCHANGED <<serial_port, lock, config, app, min_freq, max_freq, dev,
                   garbage_left>>

\* VRG.status_byte: return int(float(response))
status_byte_return(t) ==
    /\ th[t].pc = "status_byte_return"
    /\ IntReturn(t, GS)
    /\ UNCHANGED <<serial_port, lock, config, app, min_freq, max_freq, calls, dev,
                   ops_left, garbage_left>>

\* VRG.status: the query
status(t) ==
    /\ Start(t)
    /\ Goto(t, SendQuery(Rec("status", NoArg), RT, "status_return"))
    /\ UNCHANGED <<serial_port, lock, config, app, min_freq, max_freq, dev,
                   garbage_left>>

\* VRG.status: split the answer, convert every field with float(), then
\* the second one with int()
status_return(t) ==
    /\ th[t].pc = "status_return"
    /\ LET fields == Split(Cleaned(th[t].resp, RT)) IN
         IF \E i \in 1..Len(fields) : ~IsNumeric(fields[i])
         THEN Raise(t, th[t], "ParseError")
         ELSE IF Len(fields) < 2 THEN Raise(t, th[t], "IndexError")
         ELSE Return(t, [th[t] EXCEPT
                  !.lst = [i \in 1..Len(fields) |-> DigitsValue(fields[i])]],
                  NoVal)
    /\ UNCHANGED <<serial_port, lock, config, app, min_freq, max_freq, calls, dev,
                   ops_left, garbage_left>>

\* (the last character, whichever flag is asked for)
FlagCharLast(status_int, k) == FromEnd(Bin(status_int), 1)

\* bin(status_int)[-k]
FlagChar(status_int, k) == FromEnd(Bin(status_int), k)

\* status_int = self.status_byte; return bin(status_int)[-k] == '1'
FlagReturn(t, k) ==
    LET response == Cleaned(th[t].resp, GS) IN
    IF ~IsNumeric(response) THEN Raise(t, th[t], "ParseError")
    ELSE IF ~HasFromEnd(Bin(DigitsValue(response)), k)
    THEN Raise(t, th[t], "IndexError")
    ELSE Return(t, th[t], BoolVal(FlagChar(DigitsValue(response), k) = "1"))

\* VRG.is_enabled: the query
is_enabled(t) ==
    /\ Start(t)
    /\ Goto(t, SendQuery(Rec("is_enabled", NoArg), GS, "is_enabled_return"))
    /\ UNCHANGED <<serial_port, lock, config, app, min_freq, max_freq, dev,
                   garbage_left>>

\* VRG.is_enabled: return bin(status_int)[-3] == '1'
is_enabled_return(t) ==
    /\ th[t].pc = "is_enabled_return"
    /\ FlagReturn(t, 3)
    /\ UNCHANGED <<serial_port, lock, config, app, min_freq, max_freq, calls, dev,
                   ops_left, garbage_left>>

\* VRG.is_overtemp: the query
is_overtemp(t) ==
    /\ Start(t)
    /\ Goto(t, SendQuery(Rec("is_overtemp", NoArg), GS, "is_overtemp_return"))
    /\ UNCHANGED <<serial_port, lock, config, app, min_freq, max_freq, dev,
                   garbage_left>>

\* VRG.is_overtemp: return bin(status_int)[-2] == '1'
is_overtemp_return(t) ==
    /\ th[t].pc = "is_overtemp_return"
    /\ FlagReturn(t, 2)
    /\ UNCHANGED <<serial_port, lock, config, app, min_freq, max_freq, calls, dev,
                   ops_left, garbage_left>>

\* VRG.is_interlocked: the query
is_interlocked(t) ==
    /\ Start(t)
    /\ Goto(t, SendQuery(Rec("is_interlocked", NoArg), GS, "is_interlocked_return"))
    /\ UNCHANGED <<serial_port, lock, config, app, min_freq, max_freq, dev,
                   garbage_left>>

\* VRG.is_interlocked: return bin(status_int)[-1] == '1'
is_interlocked_return(t) ==
    /\ th[t].pc = "is_interlocked_return"
    /\ FlagReturn(t, 1)
    /\ UNCHANGED <<serial_port, lock, config, app, min_freq, max_freq, calls, dev,
                   ops_left, garbage_left>>

\* status_int = int(self.status[1]); return bin(status_int)[-k] == '1'
StatusFlagReturn(t, k) ==
    LET fields == Split(Cleaned(th[t].resp, RT)) IN
    IF \E i \in 1..Len(fields) : ~IsNumeric(fields[i])
    THEN Raise(t, th[t], "ParseError")
    ELSE IF Len(fields) < 2 THEN Raise(t, th[t], "IndexError")
    ELSE IF ~HasFromEnd(Bin(DigitsValue(fields[2])), k)
    THEN Raise(t, th[t], "IndexError")
    ELSE Return(t, th[t],
                BoolVal(FlagChar(DigitsValue(fields[2]), k) = "1"))

\* VRG.is_overcurrent: the status query
is_overcurrent(t) ==
    /\ Start(t)
    /\ Goto(t, SendQuery(Rec("is_overcurrent", NoArg), RT,
                         "is_overcurrent_return"))
    /\ UNCHANGED <<serial_port, lock, config, app, min_freq, max_freq, dev,
                   garbage_left>>

\* VRG.is_overcurrent: return bin(status_int)[-4] == '1'
is_overcurrent_return(t) ==
    /\ th[t].pc = "is_overcurrent_return"
    /\ StatusFlagReturn(t, 4)
    /\ UNCHANGED <<serial_port, lock, config, app, min_freq, max_freq, calls,
                   dev, ops_left, garbage_left>>

\* VRG.output_enabled (getter): the status query
output_enabled_getter(t) ==
    /\ Start(t)
    /\ Goto(t, SendQuery(Rec("output_enabled.getter", NoArg), RT,
                         "output_enabled_return"))
    /\ UNCHANGED <<serial_port, lock, config, app, min_freq, max_freq, dev,
                   garbage_left>>

\* VRG.output_enabled (getter): return bin(status_int)[-1] == '1'
output_enabled_getter_return(t) ==
    /\ th[t].pc = "output_enabled_return"
    /\ StatusFlagReturn(t, 1)
    /\ UNCHANGED <<serial_port, lock, config, app, min_freq, max_freq, calls,
                   dev, ops_left, garbage_left>>

\* The commands without an argument.
EE == <<"E", "E">>
DE == <<"D", "E">>
PM0 == <<"P", "M", "0">>
PM1 == <<"P", "M", "1">>
TW == <<"T", "W">>
TT == <<"T", "T">>

\* ------------------------------------------- commands without an argument
\* VRG.enable_echo: self._send_command('EE')
enable_echo(t) ==
    /\ Start(t)
    /\ Goto(t, SendCommand(Rec("enable_echo", NoArg), EE, "return"))
    /\ UNCHANGED <<serial_port, lock, config, app, min_freq, max_freq, dev,
                   garbage_left>>

\* VRG.disable_echo: self._send_command('DE')
disable_echo(t) ==
    /\ Start(t)
    /\ Goto(t, SendCommand(Rec("disable_echo", NoArg), DE, "return"))
    /\ UNCHANGED <<serial_port, lock, config, app, min_freq, max_freq, dev,
                   garbage_left>>

\* VRG.set_fwd_mode: self._send_command('PM0')
set_fwd_mode(t) ==
    /\ Start(t)
    /\ Goto(t, SendCommand(Rec("set_fwd_mode", NoArg), PM0, "return"))
    /\ UNCHANGED <<serial_port, lock, config, app, min_freq, max_freq, dev,
                   garbage_left>>

\* VRG.set_abs_mode: self._send_command('PM1')
set_abs_mode(t) ==
    /\ Start(t)
    /\ Goto(t, SendCommand(Rec("set_abs_mode", NoArg), PM1, "return"))
    /\ UNCHANGED <<serial_port, lock, config, app, min_freq, max_freq, dev,
                   garbage_left>>

\* VRG.autotune: self._send_command('TW')
autotune(t) ==
    /\ Start(t)
    /\ Goto(t, SendCommand(Rec("autotune", NoArg), TW, "return"))
    /\ UNCHANGED <<serial_port, lock, config, app, min_freq, max_freq, dev,
                   garbage_left>>

\* VRG.narrow_autotune: self._send_command('TT')
narrow_autotune(t) ==
    /\ Start(t)
    /\ Goto(t, SendCommand(Rec("narrow_autotune", NoArg), TT, "return"))
    /\ UNCHANGED <<serial_port, lock, config, app, min_freq, max_freq, dev,
                   garbage_left>>

\* A thread that is not inside a driver call closes the port object it can
\* reach through vrg.serial_port.
serial_port_close(t) ==
    /\ th[t].pc = "idle"
    /\ serial_port = "open"
    /\ serial_port' = "closed"
    /\ UNCHANGED <<lock, config, app, min_freq, max_freq, calls, dev, th, last,
                   ops_left, garbage_left>>

\* ------------------------------------------------------------ specification
\* The operations only the GUI thread performs on the driver: the setters,
\* the reads of the allowed window and the flush after connecting.
Gui(t) ==
    \/ power_setter(t)
    \/ output_enabled_setter(t)
    \/ freq_setter(t)
    \/ min_freq_setter(t)
    \/ max_freq_setter(t)
    \/ min_freq_getter(t)
    \/ max_freq_getter(t)
    \/ flush_input_buffer(t)

\* The read both threads perform: the worker polls the frequency setting.
Poll(t) == freq_getter(t)

\* A step inside a driver call that has been started.
Step(t) ==
    \/ freq_getter_return(t)
    \/ min_freq_getter_store(t)
    \/ max_freq_getter_store(t)
    \/ min_freq_setter_store(t)
    \/ min_freq_setter_clamp(t)
    \/ max_freq_setter_store(t)
    \/ max_freq_setter_clamp(t)
    \/ send_command_check(t)
    \/ send_command_acquire(t)
    \/ send_command_write(t)
    \/ send_command_release(t)
    \/ send_query_check(t)
    \/ send_query_acquire(t)
    \/ send_query_reset(t)
    \/ send_query_write(t)
    \/ send_query_read(t)
    \/ send_query_release(t)
    \/ flush_input_buffer_acquire(t)
    \/ flush_input_buffer_reset(t)
    \/ flush_input_buffer_release(t)

Next ==
    \/ Gui("ui")
    \/ \E t \in Threads : Poll(t) \/ Step(t)

Spec == Init /\ [][Next]_vars

\* ------------------------------------------- one caller, the whole driver
\* The reads of the power setting, of the measured powers and of the status.
Reads(t) ==
    \/ power_getter(t)
    \/ fwd_power(t)
    \/ rfl_power(t)
    \/ abs_power(t)
    \/ status_byte(t)
    \/ status(t)
    \/ is_enabled(t)
    \/ is_overtemp(t)
    \/ is_interlocked(t)
    \/ is_overcurrent(t)
    \/ output_enabled_getter(t)

\* The commands without an argument.
Commands(t) ==
    \/ enable_echo(t)
    \/ disable_echo(t)
    \/ set_fwd_mode(t)
    \/ set_abs_mode(t)
    \/ autotune(t)
    \/ narrow_autotune(t)

\* The conversion of the answer that ends each of these reads.
ReadStep(t) ==
    \/ power_getter_return(t)
    \/ fwd_power_return(t)
    \/ rfl_power_return(t)
    \/ abs_power_return(t)
    \/ status_byte_return(t)
    \/ status_return(t)
    \/ is_enabled_return(t)
    \/ is_overtemp_return(t)
    \/ is_interlocked_return(t)
    \/ is_overcurrent_return(t)
    \/ output_enabled_getter_return(t)

\* The driver constructed for a generator set to 40.65 MHz whose stored
\* minimum allowed frequency is 30 MHz.
InitSingle == InitWith([freq |-> 40650, min |-> 30000, max |-> 42000,
                   status |-> 5])

\* ------------------------------------------- the flags of the RT status
\* The values of the status field of the RT answer: four flag bits.
StatusValues == 0..15

\* The driver constructed for a generator that reports any of the status
\* values.
InitStatus ==
    \E s \in StatusValues :
        InitWith([freq |-> 40650, min |-> 30000, max |-> 42000, status |-> s])

\* A step inside a read of the RT status.
StatusStep(t) ==
    \/ status_return(t)
    \/ is_overcurrent_return(t)
    \/ output_enabled_getter_return(t)
    \/ send_query_check(t)
    \/ send_query_acquire(t)
    \/ send_query_reset(t)
    \/ send_query_write(t)
    \/ send_query_read(t)
    \/ send_query_release(t)

\* One thread reads the status and the two flags the driver takes from it.
NextStatus ==
    \/ status("ui")
    \/ is_overcurrent("ui")
    \/ output_enabled_getter("ui")
    \/ StatusStep("ui")

SpecStatus == InitStatus /\ [][NextStatus]_vars

\* One thread makes every call, one after the other, and may close the port.
NextSingle ==
    \/ Gui("ui")
    \/ Poll("ui")
    \/ Commands("ui")
    \/ Reads("ui")
    \/ serial_port_close("ui")
    \/ Step("ui")
    \/ ReadStep("ui")

SpecSingle == InitSingle /\ [][NextSingle]_vars

\* ==================================================================== claims
\* A thread is inside the with-block of an exchange.
InExchange(t) ==
    th[t].pc \in {"cmd_write", "cmd_release",
                  "q_reset", "q_write", "q_read", "q_release",
                  "flush_reset", "flush_release"}

\* The successful reads a call made.
ReadsOf(t, n) ==
    SelectSeq(calls, LAMBDA c : c.call = "read" /\ c.ok /\ c.by = t /\ c.n = n)

\* A frame is the mnemonic m, then exactly w decimal digits of value v, then
\* one carriage return.
IsFrame(frame, m, w, v) ==
    /\ Len(frame) = Len(m) + w + 1
    /\ SubSeq(frame, 1, Len(m)) = m
    /\ \A i \in (Len(m) + 1)..(Len(m) + w) : IsDigit(frame[i])
    /\ DigitsValue(SubSeq(frame, Len(m) + 1, Len(m) + w)) = v
    /\ frame[Len(frame)] = CR

\* C1: the cached allowed window always satisfies
\* hard_min <= allowed_min <= allowed_max <= hard_max.
C1_WindowOrdered ==
    /\ FltLeq(min_freq_hard_limit, min_freq)
    /\ FltLeq(min_freq, max_freq)
    /\ FltLeq(max_freq, max_freq_hard_limit)

\* C2: the frames one public call writes are contiguous on the wire: no frame
\* of another call lies between two frames of the same call.
C2_WholeCallsContiguous ==
    \A i, j, k \in 1..Len(Wire) :
        (i < j /\ j < k /\ Wire[i].by = Wire[k].by /\ Wire[i].n = Wire[k].n)
            => (Wire[j].by = Wire[i].by /\ Wire[j].n = Wire[i].n)

\* C3: at most one exchange is in flight: two threads are never both inside
\* an exchange, the thread inside one holds the lock, every serial port call
\* made meanwhile is its own, and the line a query returns was read right
\* after that query's own last write.
C3_OneExchangeInFlight ==
    /\ [](\A t \in Threads :
            /\ InExchange(t) => lock = t
            /\ \A u \in Threads \ {t} : ~(InExchange(t) /\ InExchange(u))
            /\ (th[t].pc = "q_release" /\ th[t].exc = "none") =>
                 /\ Len(calls) >= 2
                 /\ calls[Len(calls)] =
                      [by |-> t, n |-> th[t].n, call |-> "read",
                       data |-> th[t].resp, ok |-> TRUE]
                 /\ calls[Len(calls) - 1] =
                      [by |-> t, n |-> th[t].n, call |-> "write",
                       data |-> th[t].cmd, ok |-> TRUE])
    /\ [][\A t \in Threads :
            (InExchange(t) /\ Len(calls') > Len(calls)) =>
                calls'[Len(calls')].by = t]_vars

\* C3 witness: the GUI thread is in the retry loop of a query, holding the
\* lock, while the worker waits to start its own exchange.
C3_Witness ==
    /\ th["ui"].pc = "q_write"
    /\ Contains(th["ui"].resp, GarbageMarker)
    /\ th["poll"].pc = "q_acquire"

\* The positions of a call right after _send_query has returned a response.
AfterQuery ==
    {"freq_get_return", "min_get_store", "max_get_store",
     "min_set_clamp", "max_set_clamp"}

\* C4: a line containing "target" is never returned by a query: every such
\* line is followed by a resend of the same query and another read, and the
\* first line without the marker ends the query.
C4_GarbageNeverReturned ==
    \A t \in Threads :
        LET reads == ReadsOf(t, th[t].n)
            queries == SelectSeq(FramesOf(t, th[t].n),
                                 LAMBDA c : c.data = th[t].cmd)
        IN  /\ th[t].pc \in AfterQuery => ~Contains(th[t].resp, GarbageMarker)
            /\ (th[t].pc \in AfterQuery \cup {"q_release"}
                  /\ th[t].exc = "none") =>
                 /\ Len(reads) >= 1
                 /\ Len(queries) = Len(reads)
                 /\ th[t].resp = reads[Len(reads)].data
                 /\ ~Contains(reads[Len(reads)].data, GarbageMarker)
                 /\ \A i \in 1..(Len(reads) - 1) :
                        Contains(reads[i].data, GarbageMarker)

\* C4 witness: a query is about to return a clean line after it has thrown
\* an unsolicited line away and sent the query again.
C4_Witness ==
    \E t \in Threads :
        /\ th[t].pc = "q_release"
        /\ th[t].exc = "none"
        /\ Len(ReadsOf(t, th[t].n)) = 2
        /\ IsNumeric(th[t].resp)

\* C5: a power value that is not an int, or is outside [0, max_power], makes
\* the power setter fail (TypeError, resp. ValueError) without any call on the
\* serial port.
C5_InvalidPowerRejected ==
    \A t \in Threads :
        /\ th[t].op = "power.setter" =>
             /\ th[t].arg.kind \in {"int", "bool"}
             /\ 0 <= th[t].arg.v /\ th[t].arg.v <= max_power
        /\ (last[t].op = "power.setter"
              /\ last[t].arg.kind \notin {"int", "bool"}) =>
             /\ last[t].exc = "TypeError"
             /\ CallsOf(t, last[t].n) = <<>>
        /\ (last[t].op = "power.setter"
              /\ last[t].arg.kind \in {"int", "bool"}
              /\ (last[t].arg.v < 0 \/ last[t].arg.v > max_power)) =>
             /\ last[t].exc = "ValueError"
             /\ CallsOf(t, last[t].n) = <<>>

\* C5 witness: power 1200 with max_power 1000 was refused.
C5_Witness ==
    /\ max_power = 1000
    /\ last["ui"].op = "power.setter"
    /\ last["ui"].arg = IntArg(1200)
    /\ last["ui"].exc = "ValueError"

\* C6: a power setter call with a valid value that returns normally has made
\* exactly one serial port call: the write of 'SP', the value as 4 decimal
\* digits, and one carriage return.
C6_PowerFrame ==
    \A t \in Threads :
        (last[t].op = "power.setter" /\ last[t].exc = "none") =>
            /\ Len(CallsOf(t, last[t].n)) = 1
            /\ Len(FramesOf(t, last[t].n)) = 1
            /\ IsFrame(FramesOf(t, last[t].n)[1].data, SP, 4, last[t].arg.v)

\* C6 witness: power 37 was set (a value that needs padding).
C6_Witness ==
    /\ last["ui"].op = "power.setter"
    /\ last["ui"].exc = "none"
    /\ last["ui"].arg = IntArg(37)

\* C7: a call that ends with a validation failure (TypeError or range
\* ValueError) has written no frame and has not assigned the cached window.
C7_ValidationBeforeEffects ==
    \A t \in Threads :
        last[t].exc \in {"TypeError", "ValueError"} =>
            /\ FramesOf(t, last[t].n) = <<>>
            /\ ~last[t].stored

\* The call that thread t starts in this step, if it starts one.
StartedNow(t) == MaxOps - ops_left + 1

\* C8: a freq setter call whose value lies outside the allowed window cached
\* at the time of the call fails with ValueError, one whose value is not a
\* number fails with TypeError, and neither makes a serial port call.
C8_FreqOutsideWindowRejected ==
    [][\A t \in Threads :
         \A value \in FreqArgs :
           (/\ th[t].pc = "idle"
            /\ ops_left' = ops_left - 1
            /\ \/ (th'[t].op = "freq.setter" /\ th'[t].arg = value)
               \/ (last'[t].op = "freq.setter" /\ last'[t].arg = value
                     /\ last'[t].n = StartedNow(t)))
           =>
           /\ value.kind \notin {"int", "bool", "float"} =>
                /\ th'[t].pc = "idle"
                /\ last'[t].exc = "TypeError"
                /\ SelectSeq(calls', LAMBDA c : c.by = t) = <<>>
           /\ (value.kind \in {"int", "bool", "float"}
                 /\ (FltLess(AsFlt(value), min_freq)
                       \/ FltLess(max_freq, AsFlt(value)))) =>
                /\ th'[t].pc = "idle"
                /\ last'[t].exc = "ValueError"
                /\ SelectSeq(calls', LAMBDA c : c.by = t) = <<>>]_vars

\* C8 witness: 28.0007 MHz, inside the hard limits but below the allowed
\* minimum that an earlier call raised, was refused.
C8_Witness ==
    /\ last["ui"].op = "freq.setter"
    /\ last["ui"].arg = FloatArg(280007)
    /\ last["ui"].exc = "ValueError"
    /\ FltLess(Flt(280007), min_freq)
    /\ CallsOf("ui", last["ui"].n) = <<>>

\* round(f * 1000) for f = u/10000 MHz
RoundKHz(u) == (u + 5) \div 10

\* C9: a freq setter call with a value f inside the allowed window writes
\* exactly one frame: 'SF', round(f*1000) as 5 decimal digits, and one
\* carriage return.
C9_FreqFrameRounded ==
    \A t \in Threads :
        (last[t].op = "freq.setter" /\ last[t].exc = "none") =>
            /\ Len(FramesOf(t, last[t].n)) = 1
            /\ IsFrame(FramesOf(t, last[t].n)[1].data, SF, 5,
                       RoundKHz(AsFlt(last[t].arg).u))

\* C10: once the GUI thread has set the frequency to f and a freq read by
\* the worker, all of whose serial port calls came after the SF frame, has
\* returned v, v is within 0.001 MHz of f, and equal to f (to the kHz) when
\* f is a whole number of kHz.
C10_FreqRoundTrip ==
    (/\ last["ui"].op = "freq.setter" /\ last["ui"].exc = "none"
     /\ last["poll"].op = "freq.getter" /\ last["poll"].exc = "none"
     /\ Len(Wire) >= 2
     /\ Wire[1].by = "ui" /\ Wire[1].n = last["ui"].n
     /\ \A i \in 2..Len(Wire) : Wire[i].by = "poll")
    =>
    LET f == AsFlt(last["ui"].arg).u
        v == last["poll"].val.u
    IN  /\ v - f <= 10 /\ f - v <= 10
        /\ (f % 10 = 0) => (v = f)

\* Thread t starts, in this step, a call of one of the operations ops with
\* the argument value.
StartsCall(t, ops, value) ==
    /\ th[t].pc = "idle"
    /\ ops_left' = ops_left - 1
    /\ \/ (th'[t].op \in ops /\ th'[t].arg = value)
       \/ (last'[t].op \in ops /\ last'[t].arg = value
             /\ last'[t].n = StartedNow(t))

\* C11: a min_freq or max_freq setter call with a number outside
\* [hard_min, hard_max] fails with ValueError at once, makes no serial port
\* call (so writes no frame) and leaves both cached bounds as they were.
C11_BoundOutsideHardLimitsRejected ==
    [][\A t \in Threads :
         \A value \in FreqArgs :
           (/\ StartsCall(t, {"min_freq.setter", "max_freq.setter"}, value)
            /\ value.kind \in {"int", "bool", "float"}
            /\ \/ FltLess(AsFlt(value), min_freq_hard_limit)
               \/ FltLess(max_freq_hard_limit, AsFlt(value)))
           =>
           /\ th'[t].pc = "idle"
           /\ last'[t].exc = "ValueError"
           /\ SelectSeq(calls', LAMBDA c : c.by = t) = <<>>
           /\ min_freq' = min_freq
           /\ max_freq' = max_freq]_vars

\* C11 witness: on a connected driver whose window was narrowed before, the
\* max_freq setter was given 43 MHz (above the hard maximum 42) and refused.
C11_Witness ==
    /\ Connected
    /\ last["ui"].op = "max_freq.setter"
    /\ last["ui"].arg = IntArg(43)
    /\ last["ui"].exc = "ValueError"
    /\ CallsOf("ui", last["ui"].n) = <<>>
    /\ FltLess(min_freq_hard_limit, min_freq)

\* The positions at which a call tests the connection before any I/O.
AtCheck == {"cmd_check", "q_check"}

\* C12: while the driver has no port object or its port is closed, no step
\* makes a serial port call or takes the lock; every call that gets as far as
\* sending a command or a query (its arguments were valid) ends there with
\* RuntimeError, and no call gets any further.
C12_NotConnectedFailsFast ==
    [][(serial_port # "open") =>
         /\ Len(calls') <= Len(calls)
         /\ lock' = NoThread
         /\ \A t \in Threads :
              /\ th[t].pc \in AtCheck =>
                   /\ th'[t].pc = "idle"
                   /\ last'[t].exc = "RuntimeError"
              /\ th'[t].pc \in AtCheck \cup {"idle"}
              /\ (th[t].pc = "idle" /\ th'[t].pc = "idle"
                    /\ last'[t].op \notin {"none", "flush_input_buffer"}) =>
                   last'[t].exc \in {"TypeError", "ValueError"}]_vars

\* C12 witness: a status_byte read on a driver whose port was closed ended
\* with RuntimeError without any serial port call.
C12_Witness ==
    /\ serial_port = "closed"
    /\ last["ui"].op = "status_byte"
    /\ last["ui"].exc = "RuntimeError"
    /\ calls = <<>>
    /\ lock = NoThread

\* C13: the lock is held only by a thread inside the with-block of an
\* exchange: once a command, a query or a flush has returned or raised
\* (failed write, failed read, failed decode), the lock is free again.
C13_LockReleasedOnEveryExit ==
    /\ \A t \in Threads : lock = t => InExchange(t)
    /\ (\A t \in Threads : ~InExchange(t)) => lock = NoThread

\* C13 witness: the GUI thread's query ended with a decode failure while the
\* worker was waiting for the lock, and the worker has now taken it.
C13_Witness ==
    /\ last["ui"].exc = "UnicodeDecodeError"
    /\ th["ui"].pc = "idle"
    /\ lock = "poll"
    /\ th["poll"].pc = "q_reset"

\* The exceptions with which a failed serial port call reaches the caller.
TransportErrors == {"ConnectionError", "SerialException"}

\* C14: once a call has ended with a transport failure the driver is
\* disconnected (it holds no open port), so that later calls fail at the
\* connection test without any I/O.
C14_IOFailureDisconnects ==
    \A t \in Threads :
        last[t].exc \in TransportErrors => serial_port # "open"

Bit(s, k) == (s \div (2 ^ k)) % 2

\* The bit of the status byte each flag getter reports.
FlagBit == [is_interlocked |-> 0, is_overtemp |-> 1, is_enabled |-> 2]

\* The number in the last line a finished call of thread t read, or -1 when
\* that line, cleaned of the mnemonic m, is no number.
LastNumberRead(t, m) ==
    LET reads == ReadsOf(t, last[t].n) IN
    IF Len(reads) >= 1 /\ IsNumeric(Cleaned(reads[Len(reads)].data, m))
    THEN DigitsValue(Cleaned(reads[Len(reads)].data, m))
    ELSE -1

\* C16: when the GS query answered a status byte s in 0..7, is_interlocked
\* returns bit 0 of s, is_overtemp bit 1 and is_enabled bit 2, and none of
\* them raises.
C16_StatusFlagsDecoded ==
    \A t \in Threads :
        (last[t].op \in DOMAIN FlagBit /\ LastNumberRead(t, GS) \in 0..7) =>
            /\ last[t].exc = "none"
            /\ last[t].val =
                 BoolVal(Bit(LastNumberRead(t, GS), FlagBit[last[t].op]) = 1)

\* C16 witness: for the status byte 1 (bin(1) is '0b1', shorter than three
\* binary digits) is_enabled returned False.
C16_Witness ==
    /\ last["ui"].op = "is_enabled"
    /\ LastNumberRead("ui", GS) = 1
    /\ last["ui"].exc = "none"
    /\ last["ui"].val = BoolVal(FALSE)

\* The frequency settings, in kHz, the modelled generator can hold.
KnownSettings == {40650, 29000, 28000, 32299}

\* The last line a finished call of thread t read (as _readline returned
\* it), or the text 'none' when it read no line.
LastLineRead(t) ==
    LET reads == ReadsOf(t, last[t].n) IN
    IF Len(reads) >= 1 THEN reads[Len(reads)].data
    ELSE <<"n", "o", "n", "e">>

\* C17: a frequency read whose RQ answer was the kHz number k, with or
\* without the echoed 'RQ' in front, returns k/1000 MHz; the answers
\* 'RQ40650' and '40650' both give 40.65.  Neither the hard limits nor the
\* cached window play any part.
C17_FreqReadStripsEcho ==
    \A t \in Threads :
        \A k \in KnownSettings :
            (last[t].op = "freq.getter"
               /\ LastLineRead(t) \in {Digits(k), RQ \o Digits(k)}) =>
                /\ last[t].exc = "none"
                /\ last[t].val.u = 10 * k
                /\ k = 40650 => last[t].val = Flt(406500)

\* C17 witness: the answer 'RQ40650' was returned as 40.65 MHz although the
\* cached window ends at a lower maximum.
C17_Witness ==
    /\ last["ui"].op = "freq.getter"
    /\ LastLineRead("ui") = RQ \o Digits(40650)
    /\ last["ui"].val = Flt(406500)
    /\ FltLess(max_freq, Flt(406500))

\* The mnemonic each read operation sends.
ReadMnemonic ==
    [x \in {"power.getter", "freq.getter", "min_freq.getter",
            "max_freq.getter", "fwd_power", "rfl_power", "abs_power",
            "status_byte", "status"} |->
       CASE x = "power.getter" -> RO
         [] x = "freq.getter" -> RQ
         [] x = "min_freq.getter" -> R1
         [] x = "max_freq.getter" -> R2
         [] x = "fwd_power" -> RF
         [] x = "rfl_power" -> RR
         [] x = "abs_power" -> RB
         [] x = "status_byte" -> GS
         [] x = "status" -> RT]

\* The cleaned answer has the shape the read operation op expects: eight
\* numbers for status, one number for every other read.
ExpectedShape(op, cleaned) ==
    IF op = "status"
    THEN /\ Len(Split(cleaned)) = 8
         /\ \A i \in 1..8 : IsNumeric(Split(cleaned)[i])
    ELSE IsNumeric(cleaned)

\* C18: a read operation whose answer (a line without the marker, read
\* without a transport failure) does not have the expected shape, the empty
\* line of a read timeout included, fails: it returns no value and does not
\* touch the cached window.
C18_MalformedReadFails ==
    \A t \in Threads :
        (/\ last[t].op \in DOMAIN ReadMnemonic
         /\ Len(ReadsOf(t, last[t].n)) >= 1
         /\ last[t].exc \notin TransportErrors \cup {"UnicodeDecodeError"}
         /\ ~ExpectedShape(last[t].op,
                Strip(Replace(LastLineRead(t), ReadMnemonic[last[t].op]))))
        =>
        /\ last[t].exc # "none"
        /\ last[t].val = NoVal
        /\ last[t].lst = <<>>
        /\ ~last[t].stored

\* The serial port calls of the call thread t is in, or has just finished.
OwnCalls(t) ==
    CallsOf(t, IF th[t].pc = "idle" THEN last[t].n ELSE th[t].n)

\* A line read without failure that is neither the unsolicited line nor an
\* answer holding a number: empty, malformed, or no text at all.
Anomalous(line) ==
    /\ ~Contains(line, GarbageMarker)
    /\ \A i \in 1..Len(line) : ~IsDigit(line[i])

\* C19: the resend after a line with the marker is the only retry.  Within
\* one call, a failed serial port call is the last call made and the call
\* ends with the transport error; a line that is anomalous but free of the
\* marker is the last call made too; and a frame is written a second time
\* only right after a line with the marker was read and the buffer reset.
C19_OnlyGarbageIsRetried ==
    \A t \in Threads :
        LET cs == OwnCalls(t) IN
        /\ \A i \in 1..Len(cs) :
             /\ ~cs[i].ok => i = Len(cs)
             /\ (cs[i].call = "read" /\ cs[i].ok /\ Anomalous(cs[i].data))
                   => i = Len(cs)
             /\ (cs[i].call = "write"
                   /\ \E j \in 1..(i - 1) :
                        cs[j].call = "write" /\ cs[j].data = cs[i].data)
                   => /\ i >= 3
                      /\ cs[i - 1].call = "reset"
                      /\ cs[i - 2].call = "read"
                      /\ Contains(cs[i - 2].data, GarbageMarker)
        /\ (th[t].pc = "idle" /\ Len(cs) >= 1 /\ ~cs[Len(cs)].ok)
              => last[t].exc \in TransportErrors

\* C19 witness: a query was sent again after an unsolicited line, the second
\* write failed, and the call ended there with the transport error.
C19_Witness ==
    \E t \in Threads :
        /\ th[t].pc = "idle"
        /\ last[t].exc = "SerialException"
        /\ Len(OwnCalls(t)) = 5
        /\ Contains(OwnCalls(t)[3].data, GarbageMarker)
        /\ OwnCalls(t)[5].call = "write"
        /\ ~OwnCalls(t)[5].ok

\* Thread t is in the retry loop of a query: the line it read last holds the
\* marker and it has not left the with-block.
InRetryLoop(t) ==
    /\ th[t].pc \in {"q_reset", "q_write", "q_read"}
    /\ Contains(th[t].resp, GarbageMarker)

QueryStep(t) ==
    \/ freq_getter_return(t)
    \/ send_query_check(t)
    \/ send_query_acquire(t)
    \/ send_query_reset(t)
    \/ send_query_write(t)
    \/ send_query_read(t)
    \/ send_query_release(t)

\* The worker polls the frequency setting; the GUI thread may at any moment
\* close the port through vrg.serial_port, also in the middle of a query.
NextClose ==
    \/ Poll("poll")
    \/ QueryStep("poll")
    \/ serial_port_close("ui")

SpecClose == Init /\ [][NextClose]_vars

\* ------------------------------------- a device and a transport that behave
\* A line as the generator answers a query it understood: not empty (no
\* timeout), not malformed, not unsolicited, and text.
CleanLine(line) ==
    /\ line # <<>>
    /\ line # Readline(MalformedLine)
    /\ line # NotText
    /\ ~Contains(line, GarbageMarker)

\* The serial port call of this step, if it makes one, does not fail, and a
\* read delivers a clean line.
CleanStep ==
    Len(calls') = Len(calls) + 1 =>
        LET c == calls'[Len(calls')] IN
        /\ c.ok
        /\ c.call = "read" => CleanLine(c.data)

NextLive == Next /\ CleanStep

\* Both threads are scheduled: a call that can take a step takes one.  A
\* thread waits for the lock as long as another holds it.
SpecLive ==
    /\ Init
    /\ [][NextLive]_vars
    /\ \A t \in Threads : WF_vars(Step(t) /\ CleanStep)

\* ========================================================= the application
\* The window (src/src/view/main_window.py), the RFController
\* (src/src/controller/rf_controller.py) and the polling Worker
\* (src/src/controller/bg_thread.py).  The controller and the worker use
\* the driver through the calls read_status_byte, read_power_setting,
\* read_freq_setting, read_fwd_power, read_rfl_power, read_abs_power,
\* enable_rf, disable_rf, set_rf_power, set_freq and the attribute
\* instrument; a driver call made by the application is modelled by the way
\* it ends: it returns, or it raises.

\* None
NoneArg == [kind |-> "NoneType", v |-> 0]

\* self.command_widgets
CommandWidgets == {"power_le", "freq_le", "enable_rf_btn", "autotune_btn"}

\* The four QLabels that show readings.
PowerDisplays == {"abs_power_display_label", "fwd_power_display_label",
                  "rfl_power_display_label"}
Displays == PowerDisplays \cup {"freq_display_label"}

\* f'{x:.0f} W' for an int x >= 0
FormatW(x) == Digits(x) \o <<" ", "W">>

\* f'{freq:.2f}' for a frequency of k kHz held as a float in MHz, for a k
\* that is not halfway between two hundredths
Format2f(k) ==
    LET h == (k + 5) \div 10 IN
    Digits(h \div 100) \o <<".">> \o ZeroPad(Digits(h % 100), 2)

\* f'{freq:.2f} MHz'
FormatMHz(k) == Format2f(k) \o <<" ", "M", "H", "z">>

\* '### W' and '### MHz'
NonsenseW == <<"#", "#", "#", " ", "W">>
NonsenseMHz == <<"#", "#", "#", " ", "M", "H", "z">>

\* MainWindow._create_widgets: the widgets as created, all enabled, nothing
\* focused, the button unchecked
NewView ==
    [enabled |-> [w \in CommandWidgets |-> TRUE],
     checked |-> FALSE,
     enable_rf_btn |-> "RF Off",
     display |-> [l \in Displays |->
                    IF l = "freq_display_label"
                    THEN <<"0", " ", "M", "H", "z">> ELSE FormatW(0)],
     power_le |-> <<>>,
     freq_le |-> <<>>,
     focus |-> "none"]

\* for widget in self.command_widgets: widget.setEnabled(b)
SetCommandWidgetsEnabled(v, b) ==
    [v EXCEPT !.enabled = [w \in CommandWidgets |-> b]]

\* (only the two entries disabled, the buttons left as they are)
_disable_gui_entries(v) ==
    [v EXCEPT !.enabled["power_le"] = FALSE, !.enabled["freq_le"] = FALSE]

\* _disable_gui: every command widget disabled
_disable_gui(v) == SetCommandWidgetsEnabled(v, FALSE)
_enable_gui(v) == SetCommandWidgetsEnabled(v, TRUE)

\* The ways a driver call made by the application ends.
Outcomes == {"returns", "SerialException", "Exception"}

\* self.model.instrument: the driver holds an open connection
Instrument == serial_port = "open"

\* The values one poll collects.  The status byte is 0..7; the settings and
\* readings are those of a generator at 37 W and 29 MHz, with or without
\* absorbed power.
StatusNums == 0..7
PollData ==
    {[status_num |-> IntArg(s), power_setting |-> IntArg(37),
      freq_setting |-> FloatArg(290000), fwd_power |-> IntArg(a),
      rfl_power |-> IntArg(0), abs_power |-> IntArg(a)] :
        s \in StatusNums, a \in {0, 37}}

\* The dict built in the except branch of on_timeout.
ErrorData ==
    [status_num |-> IntArg(-1), power_setting |-> NoneArg,
     freq_setting |-> NoneArg, fwd_power |-> NoneArg,
     rfl_power |-> NoneArg, abs_power |-> NoneArg]

\* A signal emitted and waiting in the event queue of its receiver's thread.
Signal(name, data) == [sig |-> name, data |-> data]
NoData == [status_num |-> NoneArg]

Emit(queue, name, data) ==
    [signals EXCEPT ![queue] = Append(@, Signal(name, data))]

\* The next signal of a queue is name.
Pending(queue, name) ==
    /\ Len(signals[queue]) > 0
    /\ Head(signals[queue]).sig = name

Delivered(queue) == [signals EXCEPT ![queue] = Tail(@)]

\* A driver call made by the application, as the controller knows it.
Issued(who, m, op, how) == [by |-> who, model |-> m, op |-> op, how |-> how]

\* ------------------------------------------------------ RFController.__init__
\* _init_control: disable_echo, disable_rf, set_abs_mode inside one try, so
\* the calls stop at the first that raises; the exception is printed.
InitControlCalls == <<"disable_echo", "disable_rf", "set_abs_mode">>
_init_control(m) ==
    {[i \in 1..x[1] |->
        Issued("controller", m, InitControlCalls[i],
               IF i = x[1] /\ x[2] THEN "raises" ELSE "returns")] :
       x \in {y \in (1..3) \X BOOLEAN : y[1] = 3 \/ y[2]}}

\* QThread.start(): starts the thread unless it runs, and its started
\* signal reaches Worker.start through the worker thread's queue
worker_thread_start(w, s) ==
    IF w.thread = "running" THEN <<w, s>>
    ELSE <<[w EXCEPT !.thread = "running"],
           [s EXCEPT !.worker = Append(@, Signal("started", NoData))]>>

\* The application after RFController.__init__: the worker is created for
\* the driver given to the controller; without an instrument the command
\* widgets are disabled and nothing else happens, with one the generator is
\* initialised and the worker thread started.
InitGui ==
    /\ InitDriver([freq |-> 29000, min |-> 25000, max |-> 42000,
                   status |-> 5])
    /\ ops_left = MaxEvents
    /\ LET w == [model |-> 0, timer |-> "None", thread |-> "new"]
           s == [gui |-> <<>>, worker |-> <<>>]
       IN  IF ~Instrument
           THEN /\ view = _disable_gui(NewView)
                /\ worker = w
                /\ signals = s
                /\ controller = [model |-> 0, issued |-> <<>>,
                                 quitting |-> FALSE]
           ELSE /\ view = NewView
                /\ \E run \in _init_control(0) :
                     controller = [model |-> 0, issued |-> run,
                                   quitting |-> FALSE]
                /\ worker = worker_thread_start(w, s)[1]
                /\ signals = worker_thread_start(w, s)[2]

\* What the application leaves alone in the driver model.
driver == <<lock, min_freq_hard_limit, max_freq_hard_limit, max_power,
            min_freq, max_freq, calls, dev, th, last, garbage_left>>

\* A timer tick or a user action takes place.
Event ==
    /\ ops_left > 0
    /\ ops_left' = ops_left - 1

\* ------------------------------------------------------------- the Worker
\* The driver calls the application has made are kept in controller.issued.
Log(entries) == [controller EXCEPT !.issued = @ \o entries]

\* Worker.start, run in the worker thread once the thread has started:
\* a new QTimer of one second is started
start ==
    /\ worker.thread = "running"
    /\ Pending("worker", "started")
    /\ worker' = [worker EXCEPT !.timer = "active"]
    /\ signals' = Delivered("worker")
    /\ UNCHANGED <<view, controller, ops_left, com_port, opens, serial_port,
                   driver>>

\* Worker.stop, the slot of disconnected and of stop_requested (both
\* queued): the timer is stopped and dropped, and stopped is emitted
stop ==
    /\ worker.thread = "running"
    /\ Pending("worker", "disconnected") \/ Pending("worker", "stop_requested")
    /\ worker' = [worker EXCEPT !.timer = "None"]
    /\ signals' = [Delivered("worker") EXCEPT
                     !.gui = Append(@, Signal("stopped", NoData))]
    /\ UNCHANGED <<view, controller, ops_left, com_port, opens, serial_port,
                   driver>>

\* Worker.on_timeout: the six reads; when all return, updated is emitted
\* with their values; when one raises SerialException the dict of
\* ErrorData is built and disconnected is emitted; any other exception is
\* raised again
on_timeout ==
    /\ worker.thread = "running"
    /\ worker.timer = "active"
    /\ Event
    /\ \E how \in Outcomes :
         /\ controller' = Log(<<Issued("worker", worker.model, "read", how)>>)
         /\ CASE how = "returns" ->
                   \E data \in PollData : signals' = Emit("gui", "updated", data)
              [] how = "SerialException" ->
                   LET data == ErrorData IN
                   signals' = Emit("worker", "disconnected", NoData)
              [] OTHER -> UNCHANGED signals
    /\ UNCHANGED <<view, worker, com_port, opens, serial_port, driver>>

\* ------------------------------------------------------- the RFController
\* _set_enable_rf_btn_state(interlock_bit, abs_power)
_set_enable_rf_btn_state(v, interlock_bit, absorbed) ==
    LET Btn(checked, enabled, text) ==
            [v EXCEPT !.checked = checked,
                      !.enabled["enable_rf_btn"] = enabled,
                      !.enable_rf_btn = text]
        k == interlock_bit.v
    IN  CASE k = -1 -> Btn(FALSE, FALSE, "COM Error")
          [] k = 0 -> Btn(FALSE, TRUE, "RF Off")
          [] k = 1 -> Btn(FALSE, FALSE, "INT")
          [] k = 2 -> Btn(FALSE, TRUE, "High Temp")
          [] k = 3 -> Btn(FALSE, FALSE, "INT")
          [] k = 4 ->
               IF absorbed # NoneArg /\ absorbed.v > 0
               THEN Btn(TRUE, TRUE, "RF On")
               ELSE [v EXCEPT !.enabled["enable_rf_btn"] = TRUE]
          [] k = 5 -> Btn(FALSE, FALSE, "INT")
          [] k = 6 -> [v EXCEPT !.enable_rf_btn = "High Temp"]
          [] k = 7 -> Btn(FALSE, FALSE, "INT")
          [] OTHER -> Btn(FALSE, FALSE, "Unk Error")

\* The body of _handle_update_ui for the dict data.  data['interlock_bit']
\* raises KeyError for a dict without that key, before anything is shown.
UpdateUi(v, data) ==
    IF "interlock_bit" \notin DOMAIN data THEN v
    ELSE
    LET interlock_bit == data.interlock_bit
        absorbed == data.abs_power
        v1 == IF IsInstanceInt(interlock_bit) /\ absorbed.kind # "float"
              THEN _set_enable_rf_btn_state(v, interlock_bit, absorbed)
              ELSE v
    IN  IF interlock_bit = IntArg(-1)
        THEN [v1 EXCEPT !.display =
                [l \in Displays |-> IF l = "freq_display_label"
                                    THEN NonsenseMHz ELSE NonsenseW]]
        ELSE [v1 EXCEPT
                !.power_le = IF v.focus = "power_le" THEN @
                             ELSE Digits(data.power_setting.v),
                !.freq_le = IF v.focus = "freq_le" THEN @
                            ELSE Format2f(data.freq_setting.v \div 10),
                !.display =
                  [abs_power_display_label |-> FormatW(absorbed.v),
                   fwd_power_display_label |-> FormatW(data.fwd_power.v),
                   rfl_power_display_label |-> FormatW(data.rfl_power.v),
                   freq_display_label |->
                       FormatMHz(data.freq_setting.v \div 10)]]

\* _handle_update_ui, the slot of the worker's updated signal
_handle_update_ui ==
    /\ Pending("gui", "updated")
    /\ signals' = Delivered("gui")
    /\ view' = UpdateUi(view, Head(signals.gui).data)
    /\ UNCHANGED <<worker, controller, ops_left, com_port, opens,
                   serial_port, driver>>

\* _on_worker_stopped, the slot of the worker's stopped signal, up to the
\* processEvents() of stop_bg_thread: stop_requested is emitted
_on_worker_stopped ==
    /\ Pending("gui", "stopped")
    /\ signals' = [Delivered("gui") EXCEPT
                     !.worker = Append(@, Signal("stop_requested", NoData))]
    /\ controller' = [controller EXCEPT !.quitting = TRUE]
    /\ UNCHANGED <<view, worker, ops_left, com_port, opens, serial_port,
                   driver>>

\* (a stop_bg_thread that returns without ending the worker thread)
stop_bg_thread_noquit ==
    /\ controller.quitting
    /\ controller' = [controller EXCEPT !.quitting = FALSE]
    /\ UNCHANGED <<view, worker, signals, ops_left, com_port, opens,
                   serial_port, driver>>

\* The rest of stop_bg_thread: worker_thread.quit() and wait()
stop_bg_thread ==
    /\ controller.quitting
    /\ controller' = [controller EXCEPT !.quitting = FALSE]
    /\ worker' = [worker EXCEPT
                    !.thread = IF @ = "running" THEN "finished" ELSE @]
    /\ UNCHANGED <<view, signals, ops_left, com_port, opens, serial_port,
                   driver>>

\* A driver call of the controller that returns or raises.
Ends == {"returns", "raises"}

\* _handle_connect_clicked: a new driver is constructed for the port of the
\* ini file and becomes self.model; the generator is initialised, the
\* Autotune button enabled, the input buffer flushed and the worker thread
\* started.  A driver without a connection refuses disable_echo and has
\* nothing to flush; an exception of flush_input_buffer ends the handler.
_handle_connect_clicked ==
    /\ Event
    /\ \E opened \in BOOLEAN, flush \in Ends :
         LET port == IF com_port = "None" THEN "None"
                     ELSE open_connection(opened)
             m == controller.model + 1
             runs == IF port = "open" THEN _init_control(m)
                     ELSE {<<Issued("controller", m, "disable_echo",
                                    "raises")>>}
             flushed == IF port = "open" THEN flush ELSE "returns"
             started == worker_thread_start(worker, signals)
         IN  /\ opens' = IF com_port = "None" THEN opens
                         ELSE Append(opens, opened)
             /\ serial_port' = port
             /\ \E run \in runs :
                  controller' =
                    [controller EXCEPT
                       !.model = m,
                       !.issued = @ \o run \o
                          <<Issued("controller", m, "flush_input_buffer",
                                   flushed)>>]
             /\ view' = [view EXCEPT !.enabled["autotune_btn"] = TRUE]
             /\ worker' = IF flushed = "returns" THEN started[1] ELSE worker
             /\ signals' = IF flushed = "returns" THEN started[2] ELSE signals
    /\ UNCHANGED <<com_port, driver>>

\* _handle_abs_mode_selected / _handle_fwd_mode_selected
_handle_abs_mode_selected ==
    /\ Event
    /\ \E how \in Ends :
         controller' = Log(<<Issued("controller", controller.model,
                                    "set_abs_mode", how)>>)
    /\ UNCHANGED <<view, worker, signals, com_port, opens, serial_port,
                   driver>>

_handle_fwd_mode_selected ==
    /\ Event
    /\ \E how \in Ends :
         controller' = Log(<<Issued("controller", controller.model,
                                    "set_fwd_mode", how)>>)
    /\ UNCHANGED <<view, worker, signals, com_port, opens, serial_port,
                   driver>>

\* _handle_rf_enable_btn_clicked: the click of an enabled button toggles
\* it; the text follows when the driver call returns
_handle_rf_enable_btn_clicked ==
    /\ view.enabled["enable_rf_btn"]
    /\ Event
    /\ \E how \in Ends :
         LET checked == ~view.checked IN
         /\ controller' =
              Log(<<Issued("controller", controller.model,
                           IF checked THEN "enable_rf" ELSE "disable_rf",
                           how)>>)
         /\ view' = [view EXCEPT
                       !.checked = checked,
                       !.enable_rf_btn =
                          IF how = "raises" THEN @
                          ELSE IF checked THEN "RF On" ELSE "RF Off"]
    /\ UNCHANGED <<worker, signals, com_port, opens, serial_port, driver>>

\* _handle_autotune_btn_clicked: autotune, then read_freq_setting, then the
\* frequency is shown in the entry and on the display
_handle_autotune_btn_clicked ==
    /\ view.enabled["autotune_btn"]
    /\ Event
    /\ \E tuned \in Ends, read \in Ends, k \in {29000, 32300} :
         LET m == controller.model IN
         /\ controller' =
              Log(<<Issued("controller", m, "autotune", tuned)>> \o
                  IF tuned = "raises" THEN <<>>
                  ELSE <<Issued("controller", m, "read_freq_setting",
                                read)>>)
         /\ view' =
              IF tuned = "raises" \/ read = "raises" THEN view
              ELSE [view EXCEPT
                      !.freq_le = Format2f(k),
                      !.display["freq_display_label"] = FormatMHz(k)]
    /\ UNCHANGED <<worker, signals, com_port, opens, serial_port, driver>>

\* The user puts the cursor in an enabled line edit (focusInEvent).
focusInEvent ==
    /\ \E w \in {"power_le", "freq_le"} :
         /\ view.enabled[w]
         /\ view.focus # w
         /\ view' = [view EXCEPT !.focus = w]
    /\ UNCHANGED <<worker, signals, controller, ops_left, com_port, opens,
                   serial_port, driver>>

\* Texts a user leaves in a line edit.
Typed == {<<"3", "7">>, <<"a">>}

\* _handle_power_le_changed, on the power_value_committed of the power
\* entry losing the focus with a new text: int(new_value), set_rf_power
_handle_power_le_changed ==
    /\ view.focus = "power_le"
    /\ Event
    /\ \E new_value \in Typed \ {view.power_le}, how \in Ends :
         /\ view' = [view EXCEPT !.focus = "none", !.power_le = new_value]
         /\ controller' =
              IF ~IsNumeric(new_value) THEN controller
              ELSE Log(<<Issued("controller", controller.model,
                                "set_rf_power", how)>>)
    /\ UNCHANGED <<worker, signals, com_port, opens, serial_port, driver>>

\* _handle_freq_le_changed: float(new_value), set_freq
_handle_freq_le_changed ==
    /\ view.focus = "freq_le"
    /\ Event
    /\ \E new_value \in Typed \ {view.freq_le}, how \in Ends :
         /\ view' = [view EXCEPT !.focus = "none", !.freq_le = new_value]
         /\ controller' =
              IF ~IsNumeric(new_value) THEN controller
              ELSE Log(<<Issued("controller", controller.model,
                                "set_freq", how)>>)
    /\ UNCHANGED <<worker, signals, com_port, opens, serial_port, driver>>

\* --------------------------------------------- the application's behaviours
WorkerThread == start \/ stop \/ on_timeout

GuiThread ==
    \/ _handle_update_ui
    \/ _on_worker_stopped
    \/ stop_bg_thread
    \/ _handle_connect_clicked
    \/ _handle_abs_mode_selected
    \/ _handle_fwd_mode_selected
    \/ _handle_rf_enable_btn_clicked
    \/ _handle_autotune_btn_clicked
    \/ focusInEvent
    \/ _handle_power_le_changed
    \/ _handle_freq_le_changed

NextGui == WorkerThread \/ GuiThread

SpecGui == InitGui /\ [][NextGui]_vars

\* ------------------------------------- the worker stopped, and started again
\* The polls, the delivery of the signals and the Connect action.
NextStop ==
    \/ WorkerThread
    \/ _handle_update_ui
    \/ _on_worker_stopped
    \/ stop_bg_thread
    \/ _handle_connect_clicked

\* The event loop of the worker thread delivers the signals queued for the
\* worker while the thread runs, the event loop of the GUI thread those
\* queued for the controller, and stop_bg_thread runs to its end.
SpecStop ==
    /\ InitGui
    /\ [][NextStop]_vars
    /\ WF_vars(start)
    /\ WF_vars(stop)
    /\ WF_vars(_handle_update_ui)
    /\ WF_vars(_on_worker_stopped)
    /\ WF_vars(stop_bg_thread)

\* ------------------------------------------------------------------- C21
\* The step is a poll of the worker that failed with a transport error.
PollFails ==
    /\ Len(controller'.issued) = Len(controller.issued) + 1
    /\ controller'.issued[Len(controller'.issued)] =
         Issued("worker", worker.model, "read", "SerialException")

\* C21: when a periodic poll of the worker fails with a transport error,
\* the display layer is given the sentinel values of that cycle (status -1,
\* readings unavailable): the poll emits updated with them.
C21_FailedPollGivesSentinel ==
    [][PollFails =>
         signals'.gui = Append(signals.gui, Signal("updated", ErrorData))]_vars

\* ------------------------------------------------------------------- C22
\* A poll failed with a transport error and there was no Connect since.
FailedPollSinceConnect ==
    \E i \in 1..Len(controller.issued) :
      /\ controller.issued[i].by = "worker"
      /\ controller.issued[i].how = "SerialException"
      /\ \A j \in i + 1..Len(controller.issued) :
           controller.issued[j].op # "flush_input_buffer"

\* The worker thread has been stopped and the GUI thread has nothing left
\* to handle.
Stopped ==
    /\ worker.thread = "finished"
    /\ signals.gui = <<>>
    /\ ~controller.quitting

\* C22: after a periodic poll failed with a transport error, and once the
\* worker has been stopped for it, the widgets that send commands (power entry,
\* frequency entry, Enable RF, Autotune) are disabled until a reconnection.
C22_ControlsDisabledAfterFailedPoll ==
    (FailedPollSinceConnect /\ Stopped) =>
        \A w \in CommandWidgets : ~view.enabled[w]

\* ------------------------------------------------------------------- C23
\* C23: the frequency hard limits and the maximum power are fixed at
\* construction: no step of any driver operation, successful or not,
\* changes them.
C23_LimitsFixedAtConstruction ==
    [][UNCHANGED <<min_freq_hard_limit, max_freq_hard_limit, max_power>>]_vars

\* A bound setter has returned after moving the cached window off the hard
\* limits.
C23_Witness ==
    /\ \E t \in Threads :
         /\ last[t].op \in {"min_freq.setter", "max_freq.setter"}
         /\ last[t].exc = "none"
    /\ <<min_freq, max_freq>> # <<min_freq_hard_limit, max_freq_hard_limit>>

\* ------------------------------------------------------------------- C24
\* The step changes the cached allowed window.
WindowChanges == <<min_freq, max_freq>>' # <<min_freq, max_freq>>

\* v lies within the hard limits.
InsideHardLimits(v) ==
    FltLeq(min_freq_hard_limit, v) /\ FltLeq(v, max_freq_hard_limit)

\* The step is the store of a min_freq / max_freq setter call, which puts a
\* bound inside the hard limits in the cache and leaves the other bound.
SetterStores ==
    \E t \in Threads :
      \/ /\ th[t].op = "min_freq.setter"
         /\ max_freq' = max_freq
         /\ InsideHardLimits(min_freq')
      \/ /\ th[t].op = "max_freq.setter"
         /\ min_freq' = min_freq
         /\ InsideHardLimits(max_freq')

\* The step is the store of a min_freq / max_freq getter call, which puts
\* the value it returns in the cache and leaves the other bound.
GetterStores ==
    \E t \in Threads :
      \/ /\ th[t].op = "min_freq.getter"
         /\ max_freq' = max_freq
         /\ min_freq' = last'[t].val
      \/ /\ th[t].op = "max_freq.getter"
         /\ min_freq' = min_freq
         /\ max_freq' = last'[t].val

\* C24 as stated: the cached allowed window changes only through the
\* min/max-setting operations, each with a bound checked against the hard
\* limits; every other operation, the reads included, leaves it unchanged.
C24_WindowChangesOnlyBySetters ==
    [][WindowChanges => SetterStores]_vars

\* C24 amended: the cached allowed window changes only through the
\* min/max-setting operations, each with a bound checked against the hard
\* limits, and through the reads of the minimum and maximum allowed
\* frequency, which store the value they return; every other operation
\* leaves it unchanged.
C24_WindowChangesOnlyBySettersAndBoundReads ==
    [][WindowChanges => (SetterStores \/ GetterStores)]_vars

\* A read of the minimum allowed frequency has put a value in the cache
\* that no setter call was given.
C24_Witness ==
    \E t \in Threads :
      /\ last[t].op = "min_freq.getter"
      /\ last[t].exc = "none"
      /\ min_freq = last[t].val
      /\ min_freq \notin {AsFlt(a) : a \in {b \in FreqArgs : b # StrArg}}
      /\ min_freq # min_freq_hard_limit

\* ------------------------------------------------------------------- C25
\* Thread t is inside the locked part of _send_query.
InQuery(t) == th[t].pc \in {"q_reset", "q_write", "q_read", "q_release"}

\* The transport calls of the query thread t is making: those of its driver
\* call, less the S1/S2 write that precedes the query of a bound setter.
QueryCallsOf(t) ==
    LET c == CallsOf(t, th[t].n) IN
    IF th[t].op \in {"min_freq.setter", "max_freq.setter"} THEN Tail(c) ELSE c

\* The number of lines with the marker among the reads of c.
MarkerLines(c) ==
    Cardinality({i \in 1..Len(c) :
                   c[i].call = "read" /\ Contains(c[i].data, GarbageMarker)})

HowMany(c, name) == Cardinality({i \in 1..Len(c) : c[i].call = name})

\* C25: within one query, with the lock held throughout, the transport
\* calls are reset, write, read, and again reset, write of the same bytes,
\* read for each line with the marker: every write comes right after a
\* reset, only a marker line is followed by another round, and a query that
\* ends after k marker lines has made k+1 resets, k+1 writes, k+1 reads.
C25_QueryCallOrder ==
    \A t \in Threads :
      InQuery(t) =>
        LET c == QueryCallsOf(t) IN
        /\ lock = t
        /\ \A i \in 1..Len(c) :
             /\ c[i].call = <<"reset", "write", "read">>[((i - 1) % 3) + 1]
             /\ c[i].call = "write" => c[i].data = th[t].cmd
             /\ i < Len(c) => c[i].ok
             /\ (i < Len(c) /\ c[i].call = "read") =>
                    Contains(c[i].data, GarbageMarker)
        /\ th[t].pc = "q_reset" => Len(c) % 3 = 0
        /\ th[t].pc = "q_write" => Len(c) % 3 = 1
        /\ th[t].pc = "q_read" => Len(c) % 3 = 2
        /\ (th[t].pc = "q_release" /\ th[t].exc = "none") =>
             /\ Len(c) = 3 * (MarkerLines(c) + 1)
             /\ HowMany(c, "reset") = MarkerLines(c) + 1
             /\ HowMany(c, "write") = MarkerLines(c) + 1
             /\ HowMany(c, "read") = MarkerLines(c) + 1

\* A query ends normally after one line with the marker: two rounds.
C25_Witness ==
    \E t \in Threads :
      /\ th[t].pc = "q_release"
      /\ th[t].exc = "none"
      /\ MarkerLines(QueryCallsOf(t)) = 1
      /\ Len(QueryCallsOf(t)) = 6

\* ------------------------------------------------------------------- C26
\* C26: after a read of the minimum (R1) or maximum (R2) allowed frequency
\* that returned, the cached bound is the number the device reported, in
\* kHz, times 1e-3, which is also the value returned; and a freq setter call
\* is refused with ValueError exactly when its value lies outside the window
\* cached when it is made.
C26_BoundReadRefreshesWindow ==
    /\ [](\A t \in Threads :
            /\ (last[t].op = "min_freq.getter" /\ last[t].exc = "none") =>
                 /\ LastNumberRead(t, R1) = dev.min
                 /\ min_freq = TimesMilli(LastNumberRead(t, R1))
                 /\ last[t].val = min_freq
            /\ (last[t].op = "max_freq.getter" /\ last[t].exc = "none") =>
                 /\ LastNumberRead(t, R2) = dev.max
                 /\ max_freq = TimesMilli(LastNumberRead(t, R2))
                 /\ last[t].val = max_freq)
    /\ [][\A t \in Threads :
            \A value \in {a \in FreqArgs : a.kind \in {"int", "float"}} :
              StartsCall(t, {"freq.setter"}, value) =>
                ((th'[t].pc = "idle" /\ last'[t].exc = "ValueError")
                   <=> (FltLess(AsFlt(value), min_freq)
                          \/ FltLess(max_freq, AsFlt(value))))]_vars

\* The read of the minimum put the generator's 30 MHz in the cache, and the
\* freq setter then refused 28.0007 MHz, which the hard limits allow.
C26_Witness ==
    /\ last["ui"].op = "freq.setter"
    /\ last["ui"].arg = FloatArg(280007)
    /\ last["ui"].exc = "ValueError"
    /\ min_freq = TimesMilli(30000)
    /\ FltLess(min_freq_hard_limit, Flt(280007))

\* ------------------------------------------------------------------- C27
\* The positions of a query at which the next thing done is an I/O attempt.
AtQueryIO == {"q_reset", "q_write", "q_read"}

\* C27: once another thread has closed the port, a query that is in the
\* retry loop (or anywhere between its I/O attempts) fails at its next
\* attempt, whichever of reset, write or read it is, with a transport
\* failure; it makes no further attempt, gives the lock back and raises that
\* failure to its caller.
C27_CloseEndsStalledQuery ==
    [][\A t \in Threads :
         /\ (serial_port = "closed" /\ th[t].pc \in AtQueryIO
               /\ th'[t] # th[t]) =>
              /\ th'[t].pc = "q_release"
              /\ th'[t].exc = "SerialException"
              /\ lock' = t
              /\ calls' = Append(calls, calls'[Len(calls')])
              /\ ~calls'[Len(calls')].ok
         /\ (th[t].pc = "q_release" /\ th[t].exc # "none"
               /\ th'[t] # th[t]) =>
              /\ th'[t].pc = "idle"
              /\ last'[t].exc = th[t].exc
              /\ lock' = NoThread
              /\ calls' = calls]_vars

\* The worker's query read an unsolicited line, the port was closed, the
\* reset of the next round failed, and the call ended with that failure,
\* the lock free.
C27_Witness ==
    /\ serial_port = "closed"
    /\ th["poll"].pc = "idle"
    /\ last["poll"].exc = "SerialException"
    /\ lock = NoThread
    /\ Len(OwnCalls("poll")) = 4
    /\ Contains(OwnCalls("poll")[3].data, GarbageMarker)
    /\ OwnCalls("poll")[4].call = "reset"
    /\ ~OwnCalls("poll")[4].ok

\* ------------------------------------------------------------------- C28
\* The mnemonic of each command without an argument.
NoArgCommands ==
    [enable_echo |-> EE, disable_echo |-> DE, set_fwd_mode |-> PM0,
     set_abs_mode |-> PM1, autotune |-> TW, narrow_autotune |-> TT]

\* The frames an operation may write: mnemonic and width of the argument.
FramesOfOp(op) ==
    IF op \in DOMAIN NoArgCommands THEN {<<NoArgCommands[op], 0>>}
    ELSE CASE op = "power.setter" -> {<<SP, 4>>}
           [] op = "output_enabled.setter" -> {<<ER, 0>>, <<DR, 0>>}
           [] op = "freq.setter" -> {<<SF, 5>>}
           [] op = "min_freq.setter" -> {<<S1, 5>>, <<RQ, 0>>, <<SF, 5>>}
           [] op = "max_freq.setter" -> {<<S2, 5>>, <<RQ, 0>>, <<SF, 5>>}
           [] op = "freq.getter" -> {<<RQ, 0>>}
           [] op = "min_freq.getter" -> {<<R1, 0>>}
           [] op = "max_freq.getter" -> {<<R2, 0>>}
           [] op = "power.getter" -> {<<RO, 0>>}
           [] op = "fwd_power" -> {<<RF, 0>>}
           [] op = "rfl_power" -> {<<RR, 0>>}
           [] op = "abs_power" -> {<<RB, 0>>}
           [] op \in {"status", "is_overcurrent",
                      "output_enabled.getter"} -> {<<RT, 0>>}
           [] op \in {"status_byte", "is_enabled", "is_overtemp",
                      "is_interlocked"} -> {<<GS, 0>>}
           [] OTHER -> {}

\* frame is the mnemonic m, w decimal digits and one carriage return, which
\* is its only one.
WellFormed(frame, m, w) ==
    /\ Len(frame) = Len(m) + w + 1
    /\ SubSeq(frame, 1, Len(m)) = m
    /\ \A i \in (Len(m) + 1)..(Len(m) + w) : IsDigit(frame[i])
    /\ \A i \in 1..Len(frame) : (frame[i] = CR) <=> (i = Len(frame))

\* The operation of the call (thread t, number n).
OpOf(t, n) == IF th[t].n = n THEN th[t].op ELSE last[t].op

\* C28: every frame the driver writes, or tries to write, is a mnemonic of
\* the operation that writes it, with its argument of fixed width if it has
\* one, followed by exactly one carriage return; and a call of a command
\* without an argument (EE, DE, PM0, PM1, TW, TT, ER, DR) that returns has
\* written exactly one such frame and made no other serial port call.
C28_FramesTerminatedOnce ==
    /\ \A i \in 1..Len(calls) :
         calls[i].call = "write" =>
           \E f \in FramesOfOp(OpOf(calls[i].by, calls[i].n)) :
             WellFormed(calls[i].data, f[1], f[2])
    /\ \A t \in Threads :
         (/\ th[t].pc = "idle"
          /\ last[t].exc = "none"
          /\ last[t].op \in DOMAIN NoArgCommands \cup {"output_enabled.setter"})
         =>
         /\ Len(CallsOf(t, last[t].n)) = 1
         /\ CallsOf(t, last[t].n)[1].call = "write"
         /\ CallsOf(t, last[t].n)[1].ok

\* The wide autotune returned, the frame 'TW' and a carriage return written.
C28_Witness ==
    /\ last["ui"].op = "autotune"
    /\ last["ui"].exc = "none"
    /\ Len(FramesOf("ui", last["ui"].n)) = 1
    /\ FramesOf("ui", last["ui"].n)[1].data = TW \o <<CR>>

\* ------------------------------------------------------------------- C29
\* The positions at which a call is about to take the lock.
AtAcquire == {"cmd_acquire", "q_acquire", "flush_acquire"}

\* C29: no driver call tries to take the lock while its own thread holds it
\* (an operation made of several exchanges gives the lock back after each),
\* and with a generator that answers every query with a clean line and a
\* transport that does not fail, every call that was started ends.
C29_NoSelfDeadlock ==
    /\ [](\A t \in Threads : th[t].pc \in AtAcquire => lock # t)
    /\ \A t \in Threads : (th[t].pc # "idle") ~> (th[t].pc = "idle")

\* The GUI thread's min_freq setter, its S1 frame written and the lock given
\* back, is about to take the lock again for its query while the worker
\* holds it inside a read.
C29_Witness ==
    /\ th["ui"].op = "min_freq.setter"
    /\ th["ui"].pc = "q_acquire"
    /\ Len(FramesOf("ui", th["ui"].n)) = 1
    /\ lock = "poll"

\* ------------------------------------------------------------------- C30
\* Thread t is, before or after the step, inside a call of the setter op.
SetterStep(t, op) ==
    \/ th[t].pc # "idle" /\ th[t].op = op
    \/ th'[t].pc # "idle" /\ th'[t].op = op

\* The number of the call thread t is in before or after the step.
SetterCall(t) == IF th[t].pc # "idle" THEN th[t].n ELSE th'[t].n

\* Before the step, the call of thread t has written its frame with the
\* mnemonic m, and that write has not failed.
BoundFrameWritten(t, m) ==
    /\ th[t].exc = "none"
    /\ \E i \in 1..Len(calls) :
         /\ calls[i].by = t
         /\ calls[i].n = SetterCall(t)
         /\ calls[i].call = "write"
         /\ calls[i].ok
         /\ StartsWith(calls[i].data, m)

\* C30: a call of the min_freq / max_freq setter changes the cached bound
\* only once its S1 / S2 frame has been written without error; a call whose
\* write failed, or made on a driver that is not connected, leaves the
\* cached window as it was.
C30_BoundStoredAfterWrite ==
    [][\A t \in Threads :
         /\ (SetterStep(t, "min_freq.setter") /\ min_freq' # min_freq)
               => BoundFrameWritten(t, S1)
         /\ (SetterStep(t, "max_freq.setter") /\ max_freq' # max_freq)
               => BoundFrameWritten(t, S2)
         /\ (/\ SetterStep(t, "min_freq.setter")
                \/ SetterStep(t, "max_freq.setter")
             /\ th'[t].pc = "idle"
             /\ last'[t].exc = "ConnectionError"
             /\ FramesOf(t, SetterCall(t)) = <<>>)
               => last'[t].stored = FALSE]_vars

\* A min_freq setter call given a value other than the cached bound has
\* ended with ConnectionError without a frame on the wire, and the cached
\* bound is not the value it was given.
C30_Witness ==
    \E t \in Threads :
      /\ last[t].op = "min_freq.setter"
      /\ last[t].exc = "ConnectionError"
      /\ FramesOf(t, last[t].n) = <<>>
      /\ last[t].arg.kind = "float"
      /\ min_freq # AsFlt(last[t].arg)

\* ------------------------------------------------------------------- C31
BoundSetters == {"min_freq.setter", "max_freq.setter"}

\* The frequency the RQ query of the finished call of thread t reported.
ReportedFreq(t) == TimesMilli(DigitsValue(Cleaned(LastLineRead(t), RQ)))

\* The finished bound setter call of thread t found the reported frequency
\* on the wrong side of the bound v it was given.
BeyondBound(t) ==
    IF last[t].op = "min_freq.setter"
    THEN FltLess(ReportedFreq(t), AsFlt(last[t].arg))
    ELSE FltLess(AsFlt(last[t].arg), ReportedFreq(t))

\* The frames of a bound setter call that has returned: S1 / S2, then RQ
\* (again after each unsolicited line), then SF when the reported frequency
\* was beyond the bound.
C31_SetterFrames ==
    \A t \in Threads :
        (last[t].op \in BoundSetters /\ last[t].exc = "none") =>
            LET frames == FramesOf(t, last[t].n)
                queries == SelectSeq(frames, LAMBDA c : c.data = RQ \o <<CR>>)
            IN
            /\ Len(queries) >= 1
            /\ Len(frames) = 1 + Len(queries) + IF BeyondBound(t) THEN 1 ELSE 0
            /\ StartsWith(frames[1].data,
                          IF last[t].op = "min_freq.setter" THEN S1 ELSE S2)
            /\ \A i \in 2..(1 + Len(queries)) : frames[i].data = RQ \o <<CR>>
            /\ BeyondBound(t) => StartsWith(frames[Len(frames)].data, SF)

\* The frequency setting last known to the driver when the bound setter call
\* of thread t returned: the bound when the call moved the frequency to it,
\* the reported frequency otherwise.
KnownFreq(t) ==
    IF BeyondBound(t) THEN AsFlt(last[t].arg) ELSE ReportedFreq(t)

\* C31: a min_freq / max_freq setter call given a valid bound writes S1 / S2,
\* queries RQ and moves a frequency setting that is beyond the bound to the
\* bound; whenever it returns normally, the frequency setting last known to
\* the driver lies inside the new allowed window.
C31_SetterLeavesFreqInWindow ==
    /\ C31_SetterFrames
    /\ \A t \in Threads :
         (last[t].op \in BoundSetters /\ last[t].exc = "none") =>
             WithinWindow(KnownFreq(t))

\* ------------------------------------------------------------------- C32
\* The positions of a call inside _send_command.
InCommand == {"cmd_check", "cmd_acquire", "cmd_write", "cmd_release"}

\* The mnemonics of the queries.
QueryMnemonics == {RQ, R1, R2, RO, RF, RR, RB, GS, RT}

\* The entry is the write of a command frame.
IsCommandWrite(c) ==
    /\ c.call = "write"
    /\ \A q \in QueryMnemonics : ~StartsWith(c.data, q)

\* The operations that are one command and nothing else.
SingleCommands ==
    DOMAIN NoArgCommands
        \cup {"power.setter", "output_enabled.setter", "freq.setter"}

\* C32: a command makes exactly one call on the serial port, the write of
\* its frame: no read and no reset of the input buffer.  What the generator
\* sends in reply is left in the buffer: the first call on the port after
\* the write of a command frame is never a read, it is the reset of the next
\* query (or the write of the next command).
C32_CommandWritesOnce ==
    /\ [][\A t \in Threads :
            (th[t].pc \in InCommand /\ th'[t] # th[t]) =>
                IF th[t].pc = "cmd_write"
                THEN /\ Len(calls') = Len(calls) + 1
                     /\ SubSeq(calls', 1, Len(calls)) = calls
                     /\ calls'[Len(calls')].call = "write"
                     /\ calls'[Len(calls')].data = th[t].cmd
                ELSE calls' = calls]_vars
    /\ [](\A t \in Threads :
            (last[t].op \in SingleCommands /\ last[t].exc = "none") =>
                /\ Len(CallsOf(t, last[t].n)) = 1
                /\ IsCommandWrite(CallsOf(t, last[t].n)[1]))
    /\ [](\A i \in 1..(Len(calls) - 1) :
            IsCommandWrite(calls[i]) => calls[i + 1].call \in {"reset", "write"})

\* A min_freq setter call has written its S1 frame and gone on to its
\* query, whose first call on the port was the reset of the input buffer.
C32_Witness ==
    \E t \in Threads :
      /\ th[t].op = "min_freq.setter"
      /\ th[t].pc = "q_write"
      /\ Len(CallsOf(t, th[t].n)) = 2
      /\ IsCommandWrite(CallsOf(t, th[t].n)[1])
      /\ CallsOf(t, th[t].n)[2].call = "reset"

\* ------------------------------------------------------------------- C33
\* C33: flush_input_buffer resets the input buffer only while its thread
\* holds the lock, hence never while the exchange of another thread is in
\* flight; on a driver without an open port it returns without raising,
\* without taking the lock and without a call on the port.
C33_FlushUnderLock ==
    \A t \in Threads :
        /\ th[t].pc = "flush_reset" =>
              /\ lock = t
              /\ \A u \in Threads \ {t} : ~InExchange(u)
        /\ (th[t].op = "flush_input_buffer" /\ th[t].pc # "idle") =>
              serial_port = "open"
        /\ (last[t].op = "flush_input_buffer" /\ serial_port # "open") =>
              /\ last[t].exc = "none"
              /\ CallsOf(t, last[t].n) = <<>>
              /\ lock # t

\* The GUI thread's flush is about to reset the input buffer while the
\* worker, which has started a poll, waits for the lock.
C33_Witness ==
    /\ th["ui"].pc = "flush_reset"
    /\ th["poll"].pc = "q_acquire"
    /\ lock = "ui"

\* A flush on a driver without an open port has returned.
C33_WitnessNotConnected ==
    /\ last["ui"].op = "flush_input_buffer"
    /\ serial_port # "open"

\* ------------------------------------------------------------------- C34
\* Bit b of the number s.
BitOf(s, b) == (s \div (2 ^ b)) % 2 = 1

\* The fields of the RT answer the finished call of thread t read.
FieldsRead(t) == Split(Cleaned(LastLineRead(t), RT))

\* The finished call of thread t read an RT answer that has its status
\* field: at least two fields, all of them numbers.
StatusFieldRead(t) ==
    /\ Len(ReadsOf(t, last[t].n)) >= 1
    /\ Len(FieldsRead(t)) >= 2
    /\ \A i \in 1..Len(FieldsRead(t)) : IsNumeric(FieldsRead(t)[i])

\* C34: for every status value s the generator reports in the second field
\* of the RT answer (every s in 0..15), is_overcurrent returns bit 3 of s and
\* output_enabled returns bit 0 of s, and neither raises.
C34_StatusFlagsFromRT ==
    \A t \in Threads :
        /\ (last[t].op = "is_overcurrent" /\ StatusFieldRead(t)) =>
              /\ last[t].exc = "none"
              /\ last[t].val = BoolVal(BitOf(DigitsValue(FieldsRead(t)[2]), 3))
        /\ (last[t].op = "output_enabled.getter" /\ StatusFieldRead(t)) =>
              /\ last[t].exc = "none"
              /\ last[t].val = BoolVal(BitOf(DigitsValue(FieldsRead(t)[2]), 0))

\* The same for the status values from 2 on.
C34_StatusFlagsFromTwo ==
    \A t \in Threads :
        dev.status >= 2 =>
          /\ (last[t].op = "is_overcurrent" /\ StatusFieldRead(t)) =>
                /\ last[t].exc = "none"
                /\ last[t].val =
                     BoolVal(BitOf(DigitsValue(FieldsRead(t)[2]), 3))
          /\ (last[t].op = "output_enabled.getter" /\ StatusFieldRead(t)) =>
                /\ last[t].exc = "none"
                /\ last[t].val =
                     BoolVal(BitOf(DigitsValue(FieldsRead(t)[2]), 0))

\* ------------------------------------------------------------------- C35
\* The latest Connect action succeeded: the driver it constructed holds an
\* open port and was initialised and flushed without an exception.
ConnectSucceeded ==
    /\ controller.model > 0
    /\ serial_port = "open"
    /\ \E i \in 1..Len(controller.issued) :
         /\ controller.issued[i] =
              Issued("controller", controller.model, "flush_input_buffer",
                     "returns")
         /\ \A j \in 1..(i - 1) :
              controller.issued[j].model = controller.model =>
                  controller.issued[j].how = "returns"

\* The step is a driver call of the application.
DriverCall ==
    Len(controller'.issued) > Len(controller.issued)

\* C35: after a Connect action has succeeded, every driver call of the
\* polling worker and of the controller's handlers is made on the driver
\* instance that Connect constructed, the one with the lock the other side
\* uses.
C35_OneDriverAfterConnect ==
    [][(ConnectSucceeded /\ DriverCall /\ controller'.model = controller.model)
         => \A i \in (Len(controller.issued) + 1)..Len(controller'.issued) :
               controller'.issued[i].model = controller.model]_vars

\* ------------------------------------------------------------------- C36
\* The controller was constructed with a connected generator: the first
\* driver call of the application is the disable_echo of _init_control on
\* the driver given to the controller.
StartedConnected ==
    /\ Len(controller.issued) >= 1
    /\ controller.issued[1].by = "controller"
    /\ controller.issued[1].model = 0
    /\ controller.issued[1].op = "disable_echo"

\* C36: a controller constructed with a connected generator issues
\* disable_echo (DE), disable_rf (DR) and set_abs_mode (PM1), in that order,
\* and the worker makes no query before the three have been issued: RF
\* output has been commanded off before polling starts.
C36_InitialisedBeforePolling ==
    StartedConnected =>
        /\ Len(controller.issued) >= 3
        /\ \A i \in 1..3 :
             /\ controller.issued[i].by = "controller"
             /\ controller.issued[i].model = 0
             /\ controller.issued[i].op = InitControlCalls[i]
        /\ \A j \in 1..Len(controller.issued) :
             controller.issued[j].by = "worker" => j > 3

\* ------------------------------------------------------------------- C37
\* The controller was constructed without a connected generator and no
\* Connect action has taken place since.
NoInstrumentYet == ~StartedConnected /\ controller.model = 0

Forbidding == {-1, 1, 3, 5, 7, 8, 9}

\* The step is the controller processing a poll result.
ProcessesPoll ==
    /\ Pending("gui", "updated")
    /\ signals'.gui = Tail(signals.gui)

\* C38: after the controller has processed a polled status value with the
\* interlock bit set (1, 3, 5, 7), the error value -1 or a value outside
\* 0..7, the Enable RF button is disabled and unchecked.
C38_InterlockDisablesButton ==
    [][(ProcessesPoll
          /\ Head(signals.gui).data.status_num.v \in Forbidding)
         => /\ ~view'.enabled["enable_rf_btn"]
            /\ ~view'.checked]_vars

\* _set_enable_rf_btn_state, given any of these values and any absorbed
\* power, leaves the button disabled and unchecked whatever the window
\* showed before.
C38_ButtonStateFunction ==
    \A k \in Forbidding, a \in {NoneArg, IntArg(0), IntArg(37)} :
        LET w == _set_enable_rf_btn_state(view, IntArg(k), a) IN
        /\ ~w.enabled["enable_rf_btn"]
        /\ ~w.checked

\* ------------------------------------------------------------------- C39
\* A signal with this name waits in the queue.
Queued(queue, name) ==
    \E i \in 1..Len(signals[queue]) : signals[queue][i].sig = name

\* The step is Worker.stop.
StopStep ==
    /\ worker.thread = "running"
    /\ Pending("worker", "disconnected") \/ Pending("worker", "stop_requested")
    /\ signals'.worker = Tail(signals.worker)

\* The step is a poll.
PollStep ==
    /\ Len(controller'.issued) = Len(controller.issued) + 1
    /\ controller'.issued[Len(controller'.issued)].by = "worker"

\* The exchange of stopped and stop_requested is over: no stopped signal
\* waits for the controller, stop_bg_thread is not running, and the worker
\* thread has finished, so that nothing queued for the worker is delivered.
Quiescent ==
    /\ ~Queued("gui", "stopped")
    /\ ~controller.quitting
    /\ worker.thread = "finished"

\* C39: stopping the worker terminates.  Worker.stop leaves the worker
\* without a timer and a poll fires only from an active timer of a running
\* thread; after a poll has raised a transport error (disconnected) or a
\* stop has been requested, the worker thread finishes, and the exchange of
\* stopped and stop_requested does not go on for ever: from some moment on
\* no stopped signal is pending and stop_bg_thread is not running.
C39_StoppingTerminates ==
    /\ [][(StopStep => worker'.timer = "None")
           /\ (PollStep => worker.timer = "active"
                             /\ worker.thread = "running")]_vars
    /\ (Queued("worker", "disconnected") \/ Queued("worker", "stop_requested"))
          ~> Quiescent
    /\ <>[](~Queued("gui", "stopped") /\ ~controller.quitting)

\* A poll has failed and the exchange has ended: the worker has no timer,
\* its thread has finished, and the last stop_requested stays undelivered.
C39_Witness ==
    /\ Quiescent
    /\ worker.timer = "None"
    /\ Queued("worker", "stop_requested")
    /\ \E i \in 1..Len(controller.issued) :
         controller.issued[i].how = "SerialException"

====
